---- MODULE Spec2Model ----
(***************************************************************************)
(* prowdig: the build-log segmenter (parseBuildLog), the Ginkgo block     *)
(* parser (parseGinkgoBlock), the parsing of the cached artifacts          *)
(* (parseGinkgoResultsFromCache), the aggregations (computeStatsMaxDuration,*)
(* computeStatsMostFailures) and the download cache (downloadToCache) of   *)
(* src/main.go.                                                            *)
(*                                                                         *)
(* Text is modelled by TLA+ strings, character by character.  Two bytes   *)
(* that TLA+ strings cannot hold are written with stand-ins that occur    *)
(* nowhere else in the model's inputs:                                     *)
(*     "^"  is ESC (0x1B), the first byte of an ANSI escape sequence;      *)
(*     "*"  is the bullet U+2022 that starts a Ginkgo failure header.      *)
(***************************************************************************)
EXTENDS Integers, Sequences, FiniteSets, TLC

VARIABLES
    rawLines,   \* the lines the input file was written from (the input)
    buildLog,   \* parseBuildLog: the byte buffer (reassigned by the strip)
    unread,     \* parseBuildLog: what the bufio.Scanner has not read yet
    lineNo,     \* parseBuildLog: lineNo
    isContent,  \* parseBuildLog: isContent
    body,       \* parseBuildLog: body
    blocks,     \* parseBuildLog: blocks
    ret,        \* parseBuildLog: what it returned, [blocks, err, errLine]
    pc,         \* where the run is
    shape,      \* what the block given to parseGinkgoBlock was built from
    block,      \* parseGinkgoBlock: the ginkgoBlock it is called with
    parsed,     \* parseGinkgoBlock: what the call produced
    fileOrURL,  \* main: the file, URL or cached artifact the log came from
    results,    \* main: results
    ginkgoResults,  \* parseGinkgoResultsFromCache: ginkgoResults
    artifacts,  \* parseGinkgoResultsFromCache: artifacts, with their content
    artifactNo, \* parseGinkgoResultsFromCache: artifacts ranged over so far
    stats,      \* main: stats, what an aggregation returned
    cache,      \* the files under cacheDir, by object name
    object,     \* downloadToCache: the object it was last called with
    objectNo,   \* the download loop: objects ranged over so far
    fetched     \* the objects read from the bucket, with the bytes read

scanVars == <<rawLines, buildLog, unread, lineNo, isContent, body, blocks, ret>>
blockVars == <<shape, block, parsed>>
reportVars == <<fileOrURL, results, ginkgoResults, artifacts, artifactNo,
               stats>>
downloadVars == <<cache, object, objectNo, fetched>>
vars == <<rawLines, buildLog, unread, lineNo, isContent, body, blocks, ret,
          pc, shape, block, parsed, fileOrURL, results, ginkgoResults,
          artifacts, artifactNo, stats, cache, object, objectNo, fetched>>

----------------------------------------------------------------------------
(* Bounds of the model.                                                    *)

MaxLines == 4       \* lines of an input build log
MaxLevels == 2      \* nesting levels of a block's name hierarchy
MaxLeaf == 2        \* lines of leaf error text in an error body

----------------------------------------------------------------------------
(* Strings: the functions of Go's strings and bytes packages that the      *)
(* code calls.                                                             *)

CharAt(s, i) == SubSeq(s, i, i)

\* The least element of a set of positive numbers, or 0 when it is empty.
MinOf(S) == IF S = {} THEN 0 ELSE CHOOSE k \in S : \A j \in S : k <= j

HasPrefix(s, p) == Len(p) <= Len(s) /\ SubSeq(s, 1, Len(p)) = p

HasSuffix(s, p) ==
    Len(p) <= Len(s) /\ SubSeq(s, Len(s) - Len(p) + 1, Len(s)) = p

TrimPrefix(s, p) ==
    IF HasPrefix(s, p) THEN SubSeq(s, Len(p) + 1, Len(s)) ELSE s

TrimSuffix(s, p) ==
    IF HasSuffix(s, p) THEN SubSeq(s, 1, Len(s) - Len(p)) ELSE s

RECURSIVE Repeat(_, _)
Repeat(s, n) == IF n <= 0 THEN "" ELSE s \o Repeat(s, n - 1)

RECURSIVE Join(_, _)
Join(elems, sep) ==
    IF Len(elems) = 0 THEN ""
    ELSE IF Len(elems) = 1 THEN elems[1]
    ELSE elems[1] \o sep \o Join(Tail(elems), sep)

\* Index of the first occurrence of the one-character string c in s at or
\* after position i, or 0 (bytes.IndexByte, 1-based).
IndexFrom(s, c, i) ==
    LET at == { k \in i..Len(s) : CharAt(s, k) = c }
    IN  IF at = {} THEN 0 ELSE CHOOSE k \in at : \A j \in at : k <= j

Digits == {"0", "1", "2", "3", "4", "5", "6", "7", "8", "9"}

IsDigit(c) == c \in Digits

DigitVal(c) ==
    CASE c = "0" -> 0 [] c = "1" -> 1 [] c = "2" -> 2 [] c = "3" -> 3
      [] c = "4" -> 4 [] c = "5" -> 5 [] c = "6" -> 6 [] c = "7" -> 7
      [] c = "8" -> 8 [] c = "9" -> 9

\* Number of consecutive digits of s starting at position i.
RECURSIVE DigitRun(_, _)
DigitRun(s, i) ==
    IF i <= Len(s) /\ IsDigit(CharAt(s, i)) THEN 1 + DigitRun(s, i + 1) ELSE 0

\* strconv.Atoi on a string of digits (the header pattern captures \d+).
RECURSIVE AtoiAcc(_, _)
AtoiAcc(s, acc) ==
    IF s = "" THEN acc ELSE AtoiAcc(Tail(s), 10 * acc + DigitVal(Head(s)))

Atoi(s) == AtoiAcc(s, 0)

\* strconv.Itoa for a natural number.
DigitStr(d) == CharAt("0123456789", d + 1)

RECURSIVE Itoa(_)
Itoa(n) == IF n < 10 THEN DigitStr(n) ELSE Itoa(n \div 10) \o DigitStr(n % 10)

----------------------------------------------------------------------------
(* The markers.                                                            *)

ESC == "^"
Bullet == "*"

\* "------------------------------", the 30 dashes that end a block.
DashLine == Repeat("-", 30)

\* The prefix that opens a block.
FailurePrefix == Bullet \o " Failure"

----------------------------------------------------------------------------
(* rmAnsiColors: ESC, "[", optionally 1 to 3 digits that may be followed by *)
(* ";" and 1 or 2 digits, then one of the final bytes m, G, K.             *)

IsAnsiFinal(c) == c \in {"m", "G", "K"}

\* Length of the match of rmAnsiColors that starts at position i of s, or 0.
\* After the digits only ';' or the final byte can follow, so the match at a
\* position is unique.
AnsiMatchLen(s, i) ==
    IF ~(i + 2 <= Len(s) /\ CharAt(s, i) = ESC /\ CharAt(s, i + 1) = "[")
    THEN 0
    ELSE
      LET d1 == DigitRun(s, i + 2)
          p1 == i + 2 + d1
          semi == d1 >= 1 /\ p1 <= Len(s) /\ CharAt(s, p1) = ";"
          d2 == IF semi THEN DigitRun(s, p1 + 1) ELSE 0
          p2 == IF semi THEN p1 + 1 + d2 ELSE p1
          paramsOk == /\ d1 <= 3
                      /\ semi => (d2 >= 1 /\ d2 <= 2)
      IN  IF paramsOk /\ p2 <= Len(s) /\ IsAnsiFinal(CharAt(s, p2))
          THEN p2 - i + 1
          ELSE 0

\* RmAnsiFrom with an off-by-one in the length of a match: the final byte of
\* every sequence is left in the text.
RECURSIVE RmAnsiKeepsFinal(_, _)
RmAnsiKeepsFinal(s, i) ==
    LET e == IndexFrom(s, ESC, i)
    IN  IF e = 0 THEN SubSeq(s, i, Len(s))
        ELSE LET n == AnsiMatchLen(s, e)
             IN  IF n > 0
                 THEN SubSeq(s, i, e - 1) \o RmAnsiKeepsFinal(s, e + n - 1)
                 ELSE SubSeq(s, i, e) \o RmAnsiKeepsFinal(s, e + 1)

\* rmAnsiColors.ReplaceAll(s, ""): one pass, left to right, over the
\* non-overlapping matches.  A match can only start at an ESC, so the pass
\* goes from one ESC to the next and copies what lies between.
RECURSIVE RmAnsiFrom(_, _)
RmAnsiFrom(s, i) ==
    LET e == IndexFrom(s, ESC, i)
    IN  IF e = 0 THEN SubSeq(s, i, Len(s))
        ELSE LET n == AnsiMatchLen(s, e)
             IN  IF n > 0
                 THEN SubSeq(s, i, e - 1) \o RmAnsiFrom(s, e + n)
                 ELSE SubSeq(s, i, e) \o RmAnsiFrom(s, e + 1)

rmAnsiColors(s) == RmAnsiFrom(s, 1)

\* Does s hold a match of rmAnsiColors?
HasAnsi(s) == \E i \in 1..Len(s) : AnsiMatchLen(s, i) > 0

----------------------------------------------------------------------------
(* bufio.Scanner with the default split function, bufio.ScanLines.         *)

\* bufio.MaxScanTokenSize, the size to which the buffer of a Scanner made by
\* bufio.NewScanner can grow: 64 * 1024 bytes.
MaxScanTokenSize == 65536

\* The bytes before the next newline, or all that is left without one.
RawLineLen(buf) ==
    LET at == IndexFrom(buf, "\n", 1)
    IN  IF at > 0 THEN at - 1 ELSE Len(buf)

\* HasToken without the limit on the length of a token.
HasTokenAnyLength(buf) == Len(buf) > 0

\* scanner.Scan(): is there a next token?  ScanLines yields a token while
\* data is left.  When the buffer is full and holds no newline, Scan sets
\* ErrTooLong and returns false as it does at the end of the data;
\* parseBuildLog does not read scanner.Err().
HasToken(buf) ==
    /\ Len(buf) > 0
    /\ (Len(buf) < MaxScanTokenSize \/ RawLineLen(buf) < MaxScanTokenSize)

dropCR(s) == IF HasSuffix(s, "\r") THEN SubSeq(s, 1, Len(s) - 1) ELSE s

\* The next token: up to the first newline (dropped, with a '\r' before it),
\* or all that is left when no newline follows.
NextToken(buf) ==
    LET nl == IndexFrom(buf, "\n", 1)
    IN  IF nl > 0 THEN dropCR(SubSeq(buf, 1, nl - 1)) ELSE dropCR(buf)

\* What is left unread after the next token.
AfterToken(buf) ==
    LET nl == IndexFrom(buf, "\n", 1)
    IN  IF nl > 0 THEN SubSeq(buf, nl + 1, Len(buf)) ELSE ""

----------------------------------------------------------------------------
(* parseBuildLog, src/main.go.                                             *)

\* A ginkgoBlock value.
ginkgoBlock(line, lines) == [line |-> line, lines |-> lines]

\* The condition under which a line opens a block.
Opens(content, line) == ~content /\ HasPrefix(line, FailurePrefix)

\* Closes for which a line that starts with the dashes is enough.
ClosesOnPrefix(content, line) == content /\ HasPrefix(line, DashLine)

\* The condition under which a line closes the open block.
Closes(content, line) == content /\ line = DashLine

\* The line number stored in a block when it is emitted: lineNo at that time,
\* which is the number of the line that closes the block.
BlockLine(no, lines) == no

\* ScanStep without the reset of body when a block is emitted.
ScanStepNoReset(st, line) ==
    LET no == st.lineNo + 1
        content == st.isContent \/ Opens(st.isContent, line)
        buf == IF content THEN Append(st.body, line) ELSE st.body
    IN  IF Closes(content, line)
        THEN [lineNo |-> no, isContent |-> FALSE, body |-> buf,
              blocks |-> Append(st.blocks, ginkgoBlock(BlockLine(no, buf), buf))]
        ELSE [lineNo |-> no, isContent |-> content, body |-> buf,
              blocks |-> st.blocks]

\* One iteration of the scanning loop on the token `line`; st holds the
\* locals lineNo, isContent, body and blocks.
ScanStep(st, line) ==
    LET no == st.lineNo + 1
        content == st.isContent \/ Opens(st.isContent, line)
        buf == IF content THEN Append(st.body, line) ELSE st.body
    IN  IF Closes(content, line)
        THEN [lineNo |-> no, isContent |-> FALSE, body |-> <<>>,
              blocks |-> Append(st.blocks, ginkgoBlock(BlockLine(no, buf), buf))]
        ELSE [lineNo |-> no, isContent |-> content, body |-> buf,
              blocks |-> st.blocks]

\* ScanReturn that hands back the complete blocks along with the error.
ScanReturnKeepsBlocks(st) ==
    IF st.isContent
    THEN [blocks |-> st.blocks, err |-> TRUE, errLine |-> st.lineNo]
    ELSE [blocks |-> st.blocks, err |-> FALSE, errLine |-> 0]

\* What parseBuildLog returns after the loop: (nil, error) while a block is
\* open, the line number in the error being lineNo; (blocks, nil) otherwise.
ScanReturn(st) ==
    IF st.isContent
    THEN [blocks |-> <<>>, err |-> TRUE, errLine |-> st.lineNo]
    ELSE [blocks |-> st.blocks, err |-> FALSE, errLine |-> 0]

ScanInit == [lineNo |-> 0, isContent |-> FALSE, body |-> <<>>, blocks |-> <<>>]

\* The scanning loop run to the end of the buffer.
RECURSIVE ScanAll(_, _)
ScanAll(st, buf) ==
    IF HasToken(buf)
    THEN ScanAll(ScanStep(st, NextToken(buf)), AfterToken(buf))
    ELSE st

\* parseBuildLog as a function of its argument.
parseBuildLog(bytes) == ScanReturn(ScanAll(ScanInit, rmAnsiColors(bytes)))

----------------------------------------------------------------------------
(* reGingkoBlockHeader and isParen.  The header pattern is, in words: the   *)
(* bullet, a space, then either "Failure" or "Failure in Spec Setup"        *)
(* followed by any characters, then a space, "[", digits (captured), ".",  *)
(* digits and a space.  It is not anchored.                                 *)

SetupPhrase == "Failure in Spec Setup"

\* Does s hold the string t at position i?
HasAt(s, t, i) ==
    i >= 1 /\ i + Len(t) - 1 <= Len(s) /\ SubSeq(s, i, i + Len(t) - 1) = t

\* DurationAt for a pattern whose fraction is optional.
DurationAtOptionalFraction(s, q) ==
    IF ~HasAt(s, " [", q) THEN ""
    ELSE LET d1 == DigitRun(s, q + 2)
         IN  IF d1 >= 1 THEN SubSeq(s, q + 2, q + 1 + d1) ELSE ""

\* The digits captured by the tail of the pattern (space, "[", digits, ".",
\* digits, space) when it matches at position q of s, or "" when it does not.
\* Both digit groups are followed by a non-digit, so each takes the whole run.
DurationAt(s, q) ==
    IF ~HasAt(s, " [", q) THEN ""
    ELSE LET d1 == DigitRun(s, q + 2)
             d2 == DigitRun(s, q + 3 + d1)
         IN  IF /\ d1 >= 1
                /\ HasAt(s, ".", q + 2 + d1)
                /\ d2 >= 1
                /\ HasAt(s, " ", q + 3 + d1 + d2)
             THEN SubSeq(s, q + 2, q + 1 + d1)
             ELSE ""

\* The submatches of the header pattern matched at position p of s: the first
\* alternative, "Failure", is tried first; in the second one the any-characters
\* part is greedy, so it ends at the last place where the duration follows.
HeaderMatchAt(s, p) ==
    LET afterFailure == p + Len(FailurePrefix)
        afterSetup == p + Len(Bullet) + 1 + Len(SetupPhrase)
        ends == { q \in afterSetup..Len(s) : DurationAt(s, q) # "" }
        last == CHOOSE q \in ends : \A r \in ends : r <= q
    IN  IF HasAt(s, FailurePrefix, p) /\ DurationAt(s, afterFailure) # ""
        THEN [ok |-> TRUE, phrase |-> "Failure",
              digits |-> DurationAt(s, afterFailure)]
        ELSE IF HasAt(s, Bullet \o " " \o SetupPhrase, p) /\ ends # {}
        THEN [ok |-> TRUE,
              phrase |-> SubSeq(s, p + Len(Bullet) + 1, last - 1),
              digits |-> DurationAt(s, last)]
        ELSE [ok |-> FALSE, phrase |-> "", digits |-> ""]

\* reGingkoBlockHeader.FindStringSubmatch(s): the leftmost match.
reGingkoBlockHeader(s) ==
    LET starts == { p \in 1..Len(s) : HeaderMatchAt(s, p).ok }
    IN  IF starts = {} THEN [ok |-> FALSE, phrase |-> "", digits |-> ""]
        ELSE HeaderMatchAt(s, CHOOSE p \in starts : \A r \in starts : p <= r)

\* isParen.MatchString(s): spaces, possibly none, then "}" at the end of s.
isParen(s) == HasSuffix(s, "}")

----------------------------------------------------------------------------
(* parseGinkgoBlock, src/main.go.                                          *)

ItSuffix == " [It]"
UnexpectedError == "Unexpected error:"

\* HeaderStatus with the two cases of the switch tested by prefix in the
\* other order.
HeaderStatusFailureFirst(phrase) ==
    IF HasPrefix(phrase, "Failure") THEN "failed"
    ELSE IF HasPrefix(phrase, SetupPhrase) THEN "error"
    ELSE ""

\* The status chosen from the first submatch of the header; "" is the default
\* branch of the switch, which returns an error.
HeaderStatus(phrase) ==
    IF HasPrefix(phrase, SetupPhrase) THEN "error"
    ELSE IF phrase = "Failure" THEN "failed"
    ELSE ""

\* The index i at which the name loop stops, lines being the block's lines
\* without header and footer (Go indexes from 0, TLA+ from 1).
RECURSIVE NameWalk(_, _)
NameWalk(lines, i) ==
    IF /\ i < Len(lines) - 1
       /\ HasPrefix(lines[i + 1], Repeat(" ", i))
       /\ HasPrefix(lines[i + 2], Repeat(" ", i))
    THEN NameWalk(lines, i + 2)
    ELSE i

\* NamePart without the removal of the indentation.
NamePartKeepsIndent(line, i) == TrimSuffix(line, ItSuffix)

\* The part of the name that the loop appends at index i.
NamePart(line, i) == TrimPrefix(TrimSuffix(line, ItSuffix), Repeat(" ", i))

\* The parts collected by a loop that stopped at index i.
NameParts(lines, i) ==
    [k \in 1..(i \div 2) |-> NamePart(lines[2 * k - 1], 2 * (k - 1))]

\* UnwrapDump that keeps the closing-brace line.
UnwrapDumpFromCloser(lines) ==
    LET hits == { j \in 1..Len(lines) : isParen(lines[j]) }
        c == MinOf(hits)
    IN  IF hits = {} THEN [panic |-> FALSE, lines |-> lines, from |-> 1]
        ELSE IF c > Len(lines) - 1
        THEN [panic |-> TRUE, lines |-> <<>>, from |-> 1]
        ELSE [panic |-> FALSE, lines |-> SubSeq(lines, c, Len(lines) - 1),
              from |-> c]

\* The body of the "Unexpected error:" branch before the 4-space trim: the
\* lines after the first line that isParen matches and before the last line;
\* all lines when isParen matches none.  cut names the Go slice expression
\* lines[c : len-1], which panics when c > len-1.
UnwrapDump(lines) ==
    LET hits == { j \in 1..Len(lines) : isParen(lines[j]) }
        c == MinOf(hits)
    IN  IF hits = {} THEN [panic |-> FALSE, lines |-> lines, from |-> 1]
        ELSE IF c > Len(lines) - 1
        THEN [panic |-> TRUE, lines |-> <<>>, from |-> 1]
        ELSE [panic |-> FALSE, lines |-> SubSeq(lines, c + 1, Len(lines) - 1),
              from |-> c + 1]

Failed(all) ==
    [kind |-> "error", name |-> "", status |-> "", duration |-> 0,
     errStr |-> "", errLoc |-> "", after |-> all]

Panicked(all) ==
    [kind |-> "panic", name |-> "", status |-> "", duration |-> 0,
     errStr |-> "", errLoc |-> "", after |-> all]

\* all with the elements first+1 .. first+Len(lines) overwritten by lines: the
\* writes that block.lines[j] = ... makes in the array the caller's slice shares.
WriteBack(all, first, lines) ==
    [j \in 1..Len(all) |->
        IF j > first /\ j <= first + Len(lines) THEN lines[j - first] ELSE all[j]]

\* ErrBody that also drops the last content line.
ErrBodyDropsThree(lines) == SubSeq(lines, 1, Len(lines) - 3)

\* block.lines[0 : len(block.lines)-2]: the lines of the error section
\* without the location line and the line before it.
ErrBody(lines) == SubSeq(lines, 1, Len(lines) - 2)

\* The error section: rest is block.lines[i:], which starts at element
\* first+1 of the caller's slice all.
ErrSection(all, rest0, first0, i, name, status, duration) ==
    LET indent == Repeat(" ", i - 2)
        skip == rest0[1] = ""
        rest1 == IF skip THEN Tail(rest0) ELSE rest0
        first == IF skip THEN first0 + 1 ELSE first0
        rest2 == [j \in 1..Len(rest1) |-> TrimPrefix(rest1[j], indent)]
        all2 == WriteBack(all, first, rest2)
        n == Len(rest2)
    IN  IF n = 0 THEN Panicked(all2)          \* block.lines[len-1], len = 0
        ELSE IF n < 2 THEN Panicked(all2)     \* block.lines[0 : len-2]
        ELSE
          LET errLoc == TrimPrefix(rest2[n], indent)
              rest3 == ErrBody(rest2)
          IN  IF Len(rest3) = 0 THEN Panicked(all2)   \* block.lines[0]
              ELSE IF rest3[1] # UnexpectedError
              THEN [kind |-> "ok", name |-> name, status |-> status,
                    duration |-> duration, errStr |-> Join(rest3, "\n"),
                    errLoc |-> errLoc, after |-> all2]
              ELSE
                LET u == UnwrapDump(rest3)
                    rest4 == [j \in 1..Len(u.lines) |->
                                TrimPrefix(u.lines[j], "    ")]
                IN  IF u.panic THEN Panicked(all2)
                    ELSE [kind |-> "ok", name |-> name, status |-> status,
                          duration |-> duration, errStr |-> Join(rest4, "\n"),
                          errLoc |-> errLoc,
                          after |-> WriteBack(all2, first + u.from - 1, rest4)]

\* The length check of parseGinkgoBlock: len(block.lines) < 2.
TooShort(lines) == Len(lines) < 2

\* The footer check of parseGinkgoBlock: the last line is the dash line.
HasFooter(lines) == lines[Len(lines)] = DashLine

\* parseGinkgoBlock(block): kind is "ok" (a record and a nil error), "error"
\* (an error) or "panic" (a run-time panic: index or slice bounds out of
\* range); after is the caller's block.lines when the call is over.
parseGinkgoBlock(b) ==
    LET all == b.lines
        n == Len(all)
    IN  IF TooShort(all) THEN Failed(all)
        ELSE
          LET match == reGingkoBlockHeader(all[1])
              status == HeaderStatus(match.phrase)
          IN  IF ~match.ok THEN Failed(all)
              ELSE IF status = "" THEN Failed(all)
              ELSE IF ~HasFooter(all) THEN Failed(all)
              ELSE
                LET lines == SubSeq(all, 2, n - 1)
                    i == NameWalk(lines, 0)
                    name == Join(NameParts(lines, i), " ")
                    duration == Atoi(match.digits)
                IN  IF i = 0 THEN Failed(all)
                    ELSE IF i >= Len(lines)
                    THEN [kind |-> "ok", name |-> name, status |-> status,
                          duration |-> duration, errStr |-> "", errLoc |-> "",
                          after |-> all]
                    ELSE ErrSection(all, SubSeq(lines, i + 1, Len(lines)),
                                    i + 1, i, name, status, duration)

----------------------------------------------------------------------------
(* The inputs of the segmenter.                                            *)

OpenLine == FailurePrefix \o " [1.5 seconds]"
NoiseLine == "  " \o FailurePrefix \o " is noise"
LongDashLine == DashLine \o "-"
ColourOpenLine == ESC \o "[31m" \o OpenLine \o ESC \o "[0m"
ColourDashLine == ESC \o "[1;4m" \o DashLine \o ESC \o "[K"
NestedColourLine == ESC \o "[" \o ESC \o "[0mm" \o OpenLine

RawLineSet ==
    { OpenLine, DashLine, NoiseLine, LongDashLine, "",
      ColourOpenLine, ColourDashLine, NestedColourLine }

InputLogs == UNION { [1..n -> RawLineSet] : n \in 0..MaxLines }

NoReturn == [blocks |-> <<>>, err |-> FALSE, errLine |-> 0]
NoBlock == ginkgoBlock(0, <<>>)
NoParsed == [kind |-> "none"]
NoShape == [hdr |-> "none"]

NoObject == [Name |-> "", CRC32C |-> <<>>]

\* The state of the download command before it has run.
DownloadIdle ==
    /\ cache = <<>>
    /\ object = NoObject
    /\ objectNo = 0
    /\ fetched = <<>>

\* The state of the report commands before any of them has run.
ReportIdle ==
    /\ fileOrURL = ""
    /\ results = <<>>
    /\ ginkgoResults = <<>>
    /\ artifacts = <<>>
    /\ artifactNo = 0
    /\ stats = <<>>

----------------------------------------------------------------------------
(* The run of parseBuildLog on one build log.                              *)

Init ==
    /\ rawLines \in InputLogs
    /\ buildLog = Join(rawLines, "\n")
    /\ unread = ""
    /\ lineNo = 0
    /\ isContent = FALSE
    /\ body = <<>>
    /\ blocks = <<>>
    /\ ret = NoReturn
    /\ pc = "strip"
    /\ shape = NoShape
    /\ block = NoBlock
    /\ parsed = NoParsed
    /\ ReportIdle
    /\ DownloadIdle

\* buildLog = rmAnsiColors.ReplaceAll(buildLog, ""), and the scanner is set
\* up on the result.
StripColors ==
    /\ pc = "strip"
    /\ buildLog' = rmAnsiColors(buildLog)
    /\ unread' = buildLog'
    /\ pc' = "scan"
    /\ UNCHANGED <<rawLines, lineNo, isContent, body, blocks, ret>>
    /\ UNCHANGED blockVars
    /\ UNCHANGED reportVars
    /\ UNCHANGED downloadVars

\* for scanner.Scan() { ... }: one iteration.
ScanLine ==
    /\ pc = "scan"
    /\ HasToken(unread)
    /\ LET st == ScanStep([lineNo |-> lineNo, isContent |-> isContent,
                           body |-> body, blocks |-> blocks],
                          NextToken(unread))
       IN  /\ lineNo' = st.lineNo
           /\ isContent' = st.isContent
           /\ body' = st.body
           /\ blocks' = st.blocks
    /\ unread' = AfterToken(unread)
    /\ UNCHANGED <<rawLines, buildLog, ret, pc>>
    /\ UNCHANGED blockVars
    /\ UNCHANGED reportVars
    /\ UNCHANGED downloadVars

\* The scanner is at the end of the buffer: parseBuildLog returns.
ScanEnd ==
    /\ pc = "scan"
    /\ ~HasToken(unread)
    /\ ret' = ScanReturn([lineNo |-> lineNo, isContent |-> isContent,
                          body |-> body, blocks |-> blocks])
    /\ pc' = "done"
    /\ UNCHANGED <<rawLines, buildLog, unread, lineNo, isContent, body, blocks>>
    /\ UNCHANGED blockVars
    /\ UNCHANGED reportVars
    /\ UNCHANGED downloadVars

Next == StripColors \/ ScanLine \/ ScanEnd

Spec == Init /\ [][Next]_vars

----------------------------------------------------------------------------
(* The inputs of the block parser: a block is a header, the pairs of lines *)
(* of the name hierarchy, an optional error section and a footer.          *)

HeaderShapes ==
    { [phrase |-> "Failure", secs |-> 0, frac |-> "510"],
      [phrase |-> "Failure", secs |-> 301, frac |-> "574"],
      [phrase |-> SetupPhrase \o " (BeforeEach)", secs |-> 61, frac |-> "937"],
      [phrase |-> "Failure", secs |-> 12, frac |-> ""],
      [phrase |-> "Failed", secs |-> 7, frac |-> "250"] }

\* The header line: bullet, phrase, "[<secs>.<frac> seconds]" ("[<secs>
\* seconds]" when there is no fraction).
HeaderLine(h) ==
    Bullet \o " " \o h.phrase \o " [" \o Itoa(h.secs)
        \o (IF h.frac = "" THEN "" ELSE "." \o h.frac) \o " seconds]"

LevelKinds == {"plain", "it", "annot", "empty"}

\* The description a level prints.
LevelText(kind) ==
    CASE kind = "plain" -> "Certs"
      [] kind = "it" -> "issues a cert" \o ItSuffix
      [] kind = "annot" -> "[Conf] with ACME [BeforeEach]"
      [] kind = "empty" -> ""

NameShapes == UNION { [1..n -> LevelKinds] : n \in 0..MaxLevels }

\* Level k (from 0) is a description line and a location line, both indented
\* by 2k spaces.
DescLine(levels, k) == Repeat(" ", 2 * k) \o LevelText(levels[k + 1])
LocLine(k) == Repeat(" ", 2 * k) \o "pkg/f.go:" \o Itoa(k + 1)

NameLines(levels) ==
    [j \in 1..(2 * Len(levels)) |->
        IF j % 2 = 1 THEN DescLine(levels, (j - 1) \div 2)
        ELSE LocLine((j - 2) \div 2)]

Dumps == {"short", "nested", "value"}

\* The value dump that follows "Unexpected error:", indented by 4 spaces.
DumpLines(d) ==
    CASE d = "short" -> << "    <*e | 0xc0>: {s: 406}" >>
      [] d = "nested" -> << "    <*e | 0xc0>: {",
                            "        ErrStatus: {",
                            "            Code: 406,",
                            "        },",
                            "    }" >>
      [] d = "value" -> << "    <E>: 406" >>
      [] d = "none" -> << >>

\* The leaf error text, line by line.
LeafText(j) ==
    CASE j = 1 -> "denied: {test-issuer}"
      [] j = 2 -> "* permission denied"
      [] OTHER -> "Code: 403"

LeafLines(n) == [j \in 1..n |-> "    " \o LeafText(j)]

\* What follows the error body: a blank line and the location, the location
\* alone, the location indented by four more spaces, or nothing.
Tails == {"blankloc", "loc", "deeploc", "nothing"}

ErrLocLine == "pkg/f.go:233"

TailLines(t) ==
    CASE t = "blankloc" -> << "", ErrLocLine >>
      [] t = "loc" -> << ErrLocLine >>
      [] t = "deeploc" -> << "", "    " \o ErrLocLine >>
      [] t = "nothing" -> << >>

NoErr == [kind |-> "none", lead |-> FALSE, dump |-> "none", leaf |-> 0,
          occurred |-> FALSE, tail |-> "nothing"]

ErrShapes ==
    {NoErr}
    \cup [kind : {"msg"}, lead : BOOLEAN, dump : {"none", "nested"}, leaf : {0},
          occurred : {FALSE}, tail : Tails]
    \cup [kind : {"unexpected"}, lead : BOOLEAN, dump : Dumps,
          leaf : 0..MaxLeaf, occurred : BOOLEAN, tail : Tails]

\* The error body, not yet indented.
BodyLines(e) ==
    CASE e.kind = "none" -> << >>
      [] e.kind = "msg" -> << "Timed out after 5.000s." >> \o DumpLines(e.dump)
      [] e.kind = "unexpected" ->
            << UnexpectedError >> \o DumpLines(e.dump) \o LeafLines(e.leaf)
                \o (IF e.occurred THEN << "occurred" >> ELSE << >>)

IndentLine(l, n) == IF l = "" THEN "" ELSE Repeat(" ", n) \o l

\* The error section under a hierarchy of n levels: it is indented like the
\* innermost level, and its blank lines are empty.
ErrLines(e, n) ==
    LET ls == BodyLines(e) \o TailLines(e.tail)
        ind == IF n = 0 THEN 0 ELSE 2 * (n - 1)
    IN  (IF e.lead THEN << "" >> ELSE << >>)
            \o [j \in 1..Len(ls) |-> IndentLine(ls[j], ind)]

Footers == {"dash", "none"}

FooterLines(f) == IF f = "dash" THEN << DashLine >> ELSE << >>

PlainHeader == [phrase |-> "Failure", secs |-> 0, frac |-> "510"]

FullErr == [kind |-> "unexpected", lead |-> TRUE, dump |-> "nested", leaf |-> 1,
            occurred |-> TRUE, tail |-> "blankloc"]

\* Every name hierarchy with every error section under a plain header and a
\* footer, and every header and footer with every name hierarchy, without
\* error section and with a full one.
BlockShapes ==
    [hdr : {PlainHeader}, levels : NameShapes, err : ErrShapes,
     footer : {"dash"}]
    \cup [hdr : HeaderShapes, levels : NameShapes, err : {NoErr, FullErr},
          footer : Footers]

BuildBlock(sh) ==
    << HeaderLine(sh.hdr) >> \o NameLines(sh.levels)
        \o ErrLines(sh.err, Len(sh.levels)) \o FooterLines(sh.footer)

----------------------------------------------------------------------------
(* One call of parseGinkgoBlock.                                           *)

InitBlock ==
    /\ shape \in BlockShapes
    /\ block = ginkgoBlock(42, BuildBlock(shape))
    /\ parsed = NoParsed
    /\ pc = "call"
    /\ rawLines = <<>>
    /\ buildLog = ""
    /\ unread = ""
    /\ lineNo = 0
    /\ isContent = FALSE
    /\ body = <<>>
    /\ blocks = <<>>
    /\ ret = NoReturn
    /\ ReportIdle
    /\ DownloadIdle

\* parsed, err := parseGinkgoBlock(block).  The callee writes into the array
\* that the caller's block.lines shares with it.
ParseBlock ==
    /\ pc = "call"
    /\ parsed' = parseGinkgoBlock(block)
    /\ block' = [block EXCEPT !.lines = parsed'.after]
    /\ pc' = "returned"
    /\ UNCHANGED scanVars
    /\ UNCHANGED shape
    /\ UNCHANGED reportVars
    /\ UNCHANGED downloadVars

----------------------------------------------------------------------------
(* From a parsed block to a result: the loop bodies of main ("tests        *)
(* parse-logs") and of parseGinkgoResultsFromCache.                        *)

HOME == "/home/u"
bucketName == "jetstack-logs"
cacheDir == HOME \o "/.cache/prowdig/" \o bucketName

\* A ginkgoResult value.
ginkgoResult(name, st, duration, err, errLoc, source, job, pr, build) ==
    [Name |-> name, Status |-> st, Duration |-> duration, Err |-> err,
     ErrLoc |-> errLoc, Source |-> source, Job |-> job, PR |-> pr,
     Build |-> build]

\* reObjectName matched at position p of s: "/", digits (captured), "/", one
\* or more characters other than "/" (captured), "/", digits (captured), "/".
\* Each group is followed by a character it cannot hold, so it takes the
\* whole run.
ObjectNameMatchAt(s, p) ==
    LET d1 == DigitRun(s, p + 1)
        q == p + 1 + d1
        e == IndexFrom(s, "/", q + 1)
        d3 == IF e = 0 THEN 0 ELSE DigitRun(s, e + 1)
    IN  IF /\ HasAt(s, "/", p)
           /\ d1 >= 1
           /\ HasAt(s, "/", q)
           /\ e > q + 1
           /\ d3 >= 1
           /\ HasAt(s, "/", e + 1 + d3)
        THEN [ok |-> TRUE, pr |-> SubSeq(s, p + 1, q - 1),
              job |-> SubSeq(s, q + 1, e - 1),
              build |-> SubSeq(s, e + 1, e + d3)]
        ELSE [ok |-> FALSE, pr |-> "", job |-> "", build |-> ""]

\* reObjectName.FindStringSubmatch(s): the leftmost match.
reObjectName(s) ==
    LET p == MinOf({ k \in 1..Len(s) : ObjectNameMatchAt(s, k).ok })
    IN  IF p = 0 THEN [ok |-> FALSE, pr |-> "", job |-> "", build |-> ""]
        ELSE ObjectNameMatchAt(s, p)

\* parseObjectName(objectName): (pr, job, build, err).
parseObjectName(objectName) ==
    LET m == reObjectName(objectName)
    IN  IF ~m.ok THEN [err |-> TRUE, pr |-> 0, job |-> "", build |-> 0]
        ELSE [err |-> FALSE, pr |-> Atoi(m.pr), job |-> m.job,
              build |-> Atoi(m.build)]

isURL(f) == HasPrefix(f, "http://") \/ HasPrefix(f, "https://")

\* ParseLogsSource without the test of isURL.
ParseLogsSourceColon(f, line) == f \o ":" \o Itoa(line)

\* The source that "tests parse-logs" gives to the result of a block.
ParseLogsSource(f, line) ==
    IF isURL(f) THEN f \o "#line=" \o Itoa(line) ELSE f \o ":" \o Itoa(line)

\* The name of the object that a cached artifact is the copy of.
ObjectNameOf(artifact) == TrimPrefix(artifact, cacheDir \o "/")

\* The url of a cached artifact.
CacheURL(artifact) ==
    "https://storage.googleapis.com/" \o bucketName \o "/"
        \o ObjectNameOf(artifact)

\* The result that parseGinkgoResultsFromCache appends for a block of a
\* build log.
BuildLogResult(p, line, artifact) ==
    LET o == parseObjectName(ObjectNameOf(artifact))
    IN  ginkgoResult(p.name, p.status, p.duration, p.errStr, p.errLoc,
                     CacheURL(artifact) \o "#line=" \o Itoa(line),
                     o.job, o.pr, o.build)

\* What "tests parse-logs" can be given.
FileOrURLs ==
    { "logs/build-log.txt", "https://prow.example/build-log.txt",
      "http://prow.example/b.txt" }

\* The cached build logs; the last one has no PR, job and build in its name.
CachedLogs ==
    { cacheDir \o "/pr-logs/pull/org_repo/46/e2e-v1-13/143/build-log.txt",
      cacheDir \o "/pr-logs/pull/org_repo/4664/e2e/7/artifacts/build-log.txt",
      cacheDir \o "/pr-logs/pull/org_repo/46/build-log.txt" }

\* main, "tests parse-logs": the rest of the loop body after the call.  An
\* error of parseGinkgoBlock is printed and the (zero) value is appended all
\* the same.  A call that panicked has ended the process.
AppendParseLogs ==
    /\ pc = "returned"
    /\ parsed.kind # "panic"
    /\ \E f \in FileOrURLs :
        /\ fileOrURL' = f
        /\ results' = Append(results,
              ginkgoResult(parsed.name, parsed.status, parsed.duration,
                           parsed.errStr, parsed.errLoc,
                           ParseLogsSource(f, block.line), "", 0, 0))
    /\ pc' = "appended"
    /\ UNCHANGED scanVars
    /\ UNCHANGED blockVars
    /\ UNCHANGED <<ginkgoResults, artifacts, artifactNo, stats>>
    /\ UNCHANGED downloadVars

\* parseGinkgoResultsFromCache, build-log case: the rest of the loop body
\* after the call.  An object name that does not parse, or an error of
\* parseGinkgoBlock, makes the function return (nil, error).
AppendFromCache ==
    /\ pc = "returned"
    /\ parsed.kind # "panic"
    /\ \E a \in CachedLogs :
        /\ fileOrURL' = a
        /\ IF parseObjectName(ObjectNameOf(a)).err \/ parsed.kind = "error"
           THEN /\ ginkgoResults' = <<>>
                /\ pc' = "failed"
           ELSE /\ ginkgoResults' =
                      Append(ginkgoResults, BuildLogResult(parsed, block.line, a))
                /\ pc' = "appended"
    /\ UNCHANGED scanVars
    /\ UNCHANGED blockVars
    /\ UNCHANGED <<results, artifacts, artifactNo, stats>>
    /\ UNCHANGED downloadVars

NextBlock == ParseBlock \/ AppendParseLogs \/ AppendFromCache

SpecBlock == InitBlock /\ [][NextBlock]_vars

----------------------------------------------------------------------------
(* parseJunit and parseGinkgoResultsFromCache, src/main.go.                *)

MaxFiles == 3       \* cached artifacts of a run

\* isJunitFile: "junit__", any characters, then ".xml" at the end.
isJunitFile(s) ==
    HasSuffix(s, ".xml") /\ \E i \in 1..(Len(s) - 10) : HasAt(s, "junit__", i)

\* isBuildLogFile: "build-log.txt" at the end.
isBuildLogFile(s) == HasSuffix(s, "build-log.txt")

isToBeDownloaded(s) == isJunitFile(s) \/ isBuildLogFile(s)

\* FloorSeconds that rounds to the nearest second.
FloorSecondsRounded(ms) == (ms + 500) \div 1000

\* int(math.Floor(d.Seconds())) for a duration d of ms milliseconds.
FloorSeconds(ms) == ms \div 1000

\* The tests of all suites, in order.
RECURSIVE SuiteTests(_)
SuiteTests(suites) ==
    IF suites = <<>> THEN <<>>
    ELSE Head(suites).Tests \o SuiteTests(Tail(suites))

\* The loop of parseJunit over the tests: "skipped", "failed" and "error"
\* are passed over; the switch has no default, so any other status that is
\* not "passed" would leave the status empty.
RECURSIVE JunitBlocks(_)
JunitBlocks(tests) ==
    IF tests = <<>> THEN <<>>
    ELSE LET test == Head(tests)
         IN  IF test.Status \in {"skipped", "failed", "error"}
             THEN JunitBlocks(Tail(tests))
             ELSE << [name |-> test.Name,
                      duration |-> FloorSeconds(test.Duration),
                      status |-> IF test.Status = "passed" THEN "passed" ELSE "",
                      errStr |-> "", errLoc |-> ""] >>
                  \o JunitBlocks(Tail(tests))

\* parseJunit(bytes); the report is given as what junit.Ingest makes of it:
\* an error, or the suites with their tests (duration in milliseconds).
parseJunit(report) ==
    IF ~report.ok THEN [err |-> TRUE, results |-> <<>>]
    ELSE [err |-> FALSE, results |-> JunitBlocks(SuiteTests(report.suites))]

\* The result appended for a test of a JUnit report.
JunitResult(p, artifact) ==
    LET o == parseObjectName(ObjectNameOf(artifact))
    IN  ginkgoResult(p.name, p.status, p.duration, p.errStr, p.errLoc,
                     CacheURL(artifact), o.job, o.pr, o.build)

\* The loop over the blocks of one build log: acc is ginkgoResults.
RECURSIVE BlockResults(_, _, _)
BlockResults(acc, bs, artifact) ==
    IF bs = <<>> THEN [kind |-> "ok", results |-> acc]
    ELSE LET p == parseGinkgoBlock(Head(bs))
         IN  IF p.kind = "panic" THEN [kind |-> "panic", results |-> acc]
             ELSE IF p.kind = "error" THEN [kind |-> "error", results |-> <<>>]
             ELSE BlockResults(
                      Append(acc, BuildLogResult(p, Head(bs).line, artifact)),
                      Tail(bs), artifact)

\* One iteration of the loop over the artifacts: kind is "ok" (the loop goes
\* on with results), "error" (the function returns nil and an error) or
\* "panic" (parseGinkgoBlock panicked).
CacheStep(acc, a) ==
    IF ~isToBeDownloaded(a.path) THEN [kind |-> "ok", results |-> acc]
    ELSE IF parseObjectName(ObjectNameOf(a.path)).err
    THEN [kind |-> "error", results |-> <<>>]
    ELSE IF isJunitFile(a.path)
    THEN LET j == parseJunit(a.report)
         IN  IF j.err THEN [kind |-> "error", results |-> <<>>]
             ELSE [kind |-> "ok",
                   results |-> acc \o [k \in 1..Len(j.results) |->
                                         JunitResult(j.results[k], a.path)]]
    ELSE IF isBuildLogFile(a.path)
    THEN LET b == parseBuildLog(a.content)
         IN  IF b.err THEN [kind |-> "error", results |-> <<>>]
             ELSE BlockResults(acc, b.blocks, a.path)
    ELSE [kind |-> "error", results |-> <<>>]

----------------------------------------------------------------------------
(* The cached artifacts of a run.                                          *)

FailedBlock ==
    BuildBlock([hdr |-> [phrase |-> "Failure", secs |-> 301, frac |-> "574"],
                levels |-> <<"plain", "it">>, err |-> FullErr,
                footer |-> "dash"])

SetupBlock ==
    BuildBlock([hdr |-> [phrase |-> SetupPhrase \o " (BeforeEach)",
                         secs |-> 61, frac |-> "937"],
                levels |-> <<"annot">>, err |-> NoErr, footer |-> "dash"])

\* A block whose header opens it and does not match the header pattern.
RejectedBlock ==
    BuildBlock([hdr |-> [phrase |-> "Failure", secs |-> 12, frac |-> ""],
                levels |-> <<"plain">>, err |-> NoErr, footer |-> "dash"])

\* A build log with a failure and a setup failure.
GoodLog ==
    Join(<< "Running Suite: e2e" >> \o FailedBlock \o << "" >> \o SetupBlock
            \o << "Ran 2 of 5 Specs", "" >>, "\n")

\* A build log whose last block has no closing line.
OpenLog == Join(SetupBlock \o SubSeq(FailedBlock, 1, 3) \o << "" >>, "\n")

\* A build log with a block that parseGinkgoBlock rejects after a good one.
RejectedLog == Join(SetupBlock \o RejectedBlock \o << "" >>, "\n")

\* A JUnit report with tests of every status.
JunitReport ==
    [ok |-> TRUE,
     suites |-> <<
        [Tests |-> << [Name |-> "fast spec", Status |-> "passed",
                       Duration |-> 999],
                      [Name |-> "skipped spec", Status |-> "skipped",
                       Duration |-> 0],
                      [Name |-> "failed spec", Status |-> "failed",
                       Duration |-> 2500] >>],
        [Tests |-> << [Name |-> "slow spec", Status |-> "passed",
                       Duration |-> 61500],
                      [Name |-> "broken spec", Status |-> "error",
                       Duration |-> 1000],
                      [Name |-> "Certs issues a cert", Status |-> "passed",
                       Duration |-> 2000] >>] >>]

\* A file that junit.Ingest cannot read.
BrokenReport == [ok |-> FALSE, suites |-> <<>>]

ArtifactKinds ==
    {"goodlog", "openlog", "rejectedlog", "junit", "brokenjunit", "prowjob",
     "flatlog"}

\* The directory of the k-th build in the cache.
BuildDir(k) ==
    cacheDir \o "/pr-logs/pull/org_repo/" \o Itoa(40 + k) \o "/e2e-v1-13/"
        \o Itoa(140 + k)

\* The k-th artifact of a run, of the given kind: its path, its content and
\* what junit.Ingest makes of the content.
\* A "flatlog" is a build log directly under the directory of a PR.
Artifact(kind, k) ==
    CASE kind = "goodlog" ->
            [path |-> BuildDir(k) \o "/build-log.txt", content |-> GoodLog,
             report |-> BrokenReport]
      [] kind = "openlog" ->
            [path |-> BuildDir(k) \o "/build-log.txt", content |-> OpenLog,
             report |-> BrokenReport]
      [] kind = "rejectedlog" ->
            [path |-> BuildDir(k) \o "/build-log.txt", content |-> RejectedLog,
             report |-> BrokenReport]
      [] kind = "junit" ->
            [path |-> BuildDir(k) \o "/artifacts/junit__01.xml",
             content |-> "<testsuites>", report |-> JunitReport]
      [] kind = "brokenjunit" ->
            [path |-> BuildDir(k) \o "/artifacts/junit__02.xml",
             content |-> "<testsuites", report |-> BrokenReport]
      [] kind = "prowjob" ->
            [path |-> BuildDir(k) \o "/prowjob.json", content |-> "{}",
             report |-> BrokenReport]
      [] kind = "flatlog" ->
            [path |-> cacheDir \o "/pr-logs/pull/org_repo/" \o Itoa(40 + k)
                          \o "/build-log.txt",
             content |-> GoodLog, report |-> BrokenReport]

ArtifactLists ==
    UNION { { [k \in 1..n |-> Artifact(kinds[k], k)] :
                kinds \in [1..n -> ArtifactKinds] } : n \in 0..MaxFiles }

----------------------------------------------------------------------------
(* A report command: parseGinkgoResultsFromCache, called by main.          *)

InitCache ==
    /\ artifacts \in ArtifactLists
    /\ artifactNo = 0
    /\ ginkgoResults = <<>>
    /\ results = <<>>
    /\ stats = <<>>
    /\ fileOrURL = ""
    /\ pc = "parsing"
    /\ shape = NoShape
    /\ block = NoBlock
    /\ parsed = NoParsed
    /\ rawLines = <<>>
    /\ buildLog = ""
    /\ unread = ""
    /\ lineNo = 0
    /\ isContent = FALSE
    /\ body = <<>>
    /\ blocks = <<>>
    /\ ret = NoReturn
    /\ DownloadIdle

\* for _, artifact := range artifacts { ... }: one iteration.  An error makes
\* the function return (nil, error), and main exits with status 1.
ParseArtifact ==
    /\ pc = "parsing"
    /\ artifactNo < Len(artifacts)
    /\ artifactNo' = artifactNo + 1
    /\ fileOrURL' = artifacts[artifactNo + 1].path
    /\ \E step \in {CacheStep(ginkgoResults, artifacts[artifactNo + 1])} :
           /\ ginkgoResults' = step.results
           /\ pc' = CASE step.kind = "ok" -> "parsing"
                      [] step.kind = "error" -> "exited"
                      [] step.kind = "panic" -> "crashed"
    /\ UNCHANGED <<results, artifacts, stats>>
    /\ UNCHANGED downloadVars
    /\ UNCHANGED scanVars
    /\ UNCHANGED blockVars

\* return ginkgoResults, nil; main: results, err := ...
ReturnResults ==
    /\ pc = "parsing"
    /\ artifactNo = Len(artifacts)
    /\ results' = ginkgoResults
    /\ pc' = "parsed"
    /\ UNCHANGED <<fileOrURL, ginkgoResults, artifacts, artifactNo, stats>>
    /\ UNCHANGED downloadVars
    /\ UNCHANGED scanVars
    /\ UNCHANGED blockVars


----------------------------------------------------------------------------
(* computeStatsMaxDuration and computeStatsMostFailures.                   *)

MaxResults == 4     \* results given to an aggregation

\* A map without keys.
EmptyMap == [n \in {} |-> 0]

\* m with m[k] set to v, k being a key of m or not.
MapPut(m, k, v) ==
    [n \in DOMAIN m \cup {k} |-> IF n = k THEN v ELSE m[n]]

\* The outcomes of sort.Slice(names, less), which is not stable: the orders
\* of names in which no element is less than one before it.  less[<<a, b>>]
\* is what the less function gives for the names a and b.
SortOutcomes(names, less) ==
    LET n == Len(names)
        perms == { f \in [1..n -> 1..n] :
                     \A i, j \in 1..n : f[i] = f[j] => i = j }
    IN  { [i \in 1..n |-> names[f[i]]] :
            f \in { g \in perms :
                      \A i, j \in 1..n :
                          i < j => ~less[<< names[g[j]], names[g[i]] >>] } }

\* MaxDurationUpdate in which a setup error counts as a failure.
MaxDurationUpdateWithErrors(cur, test) ==
    CASE test.Status = "passed" ->
            [cur EXCEPT !.success = IF cur.success < test.Duration
                                    THEN test.Duration ELSE cur.success]
      [] test.Status \in {"failed", "error"} ->
            [cur EXCEPT !.failed = IF cur.failed < test.Duration
                                   THEN test.Duration ELSE cur.failed]
      [] OTHER -> cur

\* The switch of the first loop of computeStatsMaxDuration.
MaxDurationUpdate(cur, test) ==
    CASE test.Status = "passed" ->
            [cur EXCEPT !.success = IF cur.success < test.Duration
                                    THEN test.Duration ELSE cur.success]
      [] test.Status = "failed" ->
            [cur EXCEPT !.failed = IF cur.failed < test.Duration
                                   THEN test.Duration ELSE cur.failed]
      [] OTHER -> cur

\* The first loop of computeStatsMaxDuration: testNames and maxMap after it.
RECURSIVE MaxDurationLoop(_, _, _)
MaxDurationLoop(rs, testNames, maxMap) ==
    IF rs = <<>> THEN [testNames |-> testNames, maxMap |-> maxMap]
    ELSE LET test == Head(rs)
             ok == test.Name \in DOMAIN maxMap
             cur == IF ok THEN maxMap[test.Name]
                    ELSE [success |-> 0, failed |-> 0]
         IN  MaxDurationLoop(
                 Tail(rs),
                 IF ok THEN testNames ELSE Append(testNames, test.Name),
                 MapPut(maxMap, test.Name, MaxDurationUpdate(cur, test)))

\* MaxDurationLess with the comparison turned around.
MaxDurationLessDescending(maxMap, a, b) ==
    maxMap[a].failed - maxMap[a].success > maxMap[b].failed - maxMap[b].success

\* The less function given to sort.Slice by computeStatsMaxDuration.
MaxDurationLess(maxMap, a, b) ==
    maxMap[a].failed - maxMap[a].success < maxMap[b].failed - maxMap[b].success

\* computeStatsMaxDuration(results): the slices it can return, one for each
\* outcome of the sort.
computeStatsMaxDuration(rs) ==
    LET st == MaxDurationLoop(rs, <<>>, EmptyMap)
        maxMap == st.maxMap
        testNamesFiltered ==
            SelectSeq(st.testNames, LAMBDA name : maxMap[name].failed # 0)
        less == [p \in (DOMAIN maxMap) \X (DOMAIN maxMap) |->
                    MaxDurationLess(maxMap, p[1], p[2])]
    IN  { [k \in 1..Len(testNames) |->
              [Name |-> testNames[k],
               MaxDurationPassed |-> maxMap[testNames[k]].success,
               MaxDurationFailed |-> maxMap[testNames[k]].failed]] :
          testNames \in SortOutcomes(testNamesFiltered, less) }

\* The test at the head of the loop of computeStatsMostFailures: results
\* that are neither failed nor passed are passed over.
MostFailuresCounts(test) == ~(test.Status # "failed" /\ test.Status # "passed")

\* MostFailuresUpdate that puts a failure in front of the earlier ones.
MostFailuresUpdatePrepends(cur, test) ==
    CASE test.Status = "passed" -> [cur EXCEPT !.passed = cur.passed + 1]
      [] test.Status = "failed" ->
            [cur EXCEPT !.failed = << test >> \o cur.failed]
      [] OTHER -> cur

\* The switch of the loop of computeStatsMostFailures.  The list failed holds
\* the results (src/unnamed/part_003); in src/main.go it holds their Err
\* strings.
MostFailuresUpdate(cur, test) ==
    CASE test.Status = "passed" -> [cur EXCEPT !.passed = cur.passed + 1]
      [] test.Status = "failed" ->
            [cur EXCEPT !.failed = Append(cur.failed, test)]
      [] OTHER -> cur

\* The loop of computeStatsMostFailures: testNames and countMap after it.
RECURSIVE MostFailuresLoop(_, _, _)
MostFailuresLoop(rs, testNames, countMap) ==
    IF rs = <<>> THEN [testNames |-> testNames, countMap |-> countMap]
    ELSE LET test == Head(rs)
             ok == test.Name \in DOMAIN countMap
             cur == IF ok THEN countMap[test.Name]
                    ELSE [passed |-> 0, failed |-> <<>>]
         IN  IF ~MostFailuresCounts(test)
             THEN MostFailuresLoop(Tail(rs), testNames, countMap)
             ELSE MostFailuresLoop(
                      Tail(rs),
                      IF ok THEN testNames ELSE Append(testNames, test.Name),
                      MapPut(countMap, test.Name, MostFailuresUpdate(cur, test)))

\* MostFailuresLess with the comparison turned around.
MostFailuresLessDescending(countMap, a, b) ==
    Len(countMap[a].failed) > Len(countMap[b].failed)

\* The less function given to sort.Slice by computeStatsMostFailures.
MostFailuresLess(countMap, a, b) ==
    Len(countMap[a].failed) < Len(countMap[b].failed)

\* computeStatsMostFailures(results): the slices it can return, one for each
\* outcome of the sort.
computeStatsMostFailures(rs) ==
    LET st == MostFailuresLoop(rs, <<>>, EmptyMap)
        countMap == st.countMap
        less == [p \in (DOMAIN countMap) \X (DOMAIN countMap) |->
                    MostFailuresLess(countMap, p[1], p[2])]
    IN  { LET kept == SelectSeq(testNames,
                                LAMBDA name : Len(countMap[name].failed) # 0)
          IN  [k \in 1..Len(kept) |->
                  [Name |-> kept[k],
                   CountPassed |-> countMap[kept[k]].passed,
                   CountFailed |-> Len(countMap[kept[k]].failed),
                   Errors |-> countMap[kept[k]].failed]] :
          testNames \in SortOutcomes(st.testNames, less) }

\* A result with the fields that the aggregations read.
TestResult(name, st, duration, err) ==
    ginkgoResult(name, st, duration, err, "", "", "", 0, 0)

\* The results given to the aggregations: three test names, passed, failed
\* and setup-error outcomes, failures of 0 seconds among them.
ResultSet ==
    { TestResult("spec A", "passed", 3, ""),
      TestResult("spec A", "failed", 0, "no route"),
      TestResult("spec A", "failed", 5, "timed out"),
      TestResult("spec A", "error", 9, "setup A"),
      TestResult("spec B", "passed", 1, ""),
      TestResult("spec B", "failed", 2, "denied"),
      TestResult("spec B", "error", 4, "setup B"),
      TestResult("spec C", "failed", 2, "refused"),
      TestResult("spec C", "passed", 0, "") }

ResultLists == UNION { [1..n -> ResultSet] : n \in 0..MaxResults }

----------------------------------------------------------------------------
(* The aggregations that main runs on the results.                         *)

InitStats ==
    /\ results \in ResultLists
    /\ stats = <<>>
    /\ pc = "parsed"
    /\ artifacts = <<>>
    /\ artifactNo = 0
    /\ ginkgoResults = <<>>
    /\ fileOrURL = ""
    /\ shape = NoShape
    /\ block = NoBlock
    /\ parsed = NoParsed
    /\ rawLines = <<>>
    /\ buildLog = ""
    /\ unread = ""
    /\ lineNo = 0
    /\ isContent = FALSE
    /\ body = <<>>
    /\ blocks = <<>>
    /\ ret = NoReturn
    /\ DownloadIdle

\* main, "tests max-duration": stats := computeStatsMaxDuration(results).
MaxDurationReport ==
    /\ pc = "parsed"
    /\ stats' \in computeStatsMaxDuration(results)
    /\ pc' = "max-duration"
    /\ UNCHANGED <<fileOrURL, results, ginkgoResults, artifacts, artifactNo>>
    /\ UNCHANGED downloadVars
    /\ UNCHANGED scanVars
    /\ UNCHANGED blockVars

\* main, "tests most-failures": stats := computeStatsMostFailures(results).
MostFailuresReport ==
    /\ pc = "parsed"
    /\ stats' \in computeStatsMostFailures(results)
    /\ pc' = "most-failures"
    /\ UNCHANGED <<fileOrURL, results, ginkgoResults, artifacts, artifactNo>>
    /\ UNCHANGED downloadVars
    /\ UNCHANGED scanVars
    /\ UNCHANGED blockVars

\* A report command on the cache: the results are parsed, then aggregated.
NextCache ==
    ParseArtifact \/ ReturnResults \/ MaxDurationReport \/ MostFailuresReport

SpecCache == InitCache /\ [][NextCache]_vars

NextStats == MaxDurationReport \/ MostFailuresReport

SpecStats == InitStats /\ [][NextStats]_vars

----------------------------------------------------------------------------
(* downloadToCache and the loop of the download command over the objects.  *)
(* A 32-bit word is the sequence of its bits, least significant first.     *)

MaxObjects == 2     \* objects ranged over by the download loop

\* The w low bits of n.
Bits(n, w) == [i \in 1..w |-> (n \div 2^(i - 1)) % 2]

XorBits(a, b) == [i \in 1..Len(a) |-> (a[i] + b[i]) % 2]

ShiftRight(c) == Tail(c) \o << 0 >>

AllOnes == [i \in 1..32 |-> 1]

\* crc32.Castagnoli, the reversed polynomial 0x82F63B78.
Castagnoli == Bits(15224, 16) \o Bits(33526, 16)

\* One bit of the division by the polynomial.
CrcRound(c) ==
    IF c[1] = 1 THEN XorBits(ShiftRight(c), Castagnoli) ELSE ShiftRight(c)

RECURSIVE CrcRounds(_, _)
CrcRounds(c, n) == IF n = 0 THEN c ELSE CrcRounds(CrcRound(c), n - 1)

\* The CRC after one more byte v.
CrcByte(c, v) ==
    CrcRounds(XorBits(c, Bits(v, 8) \o [i \in 1..24 |-> 0]), 8)

RECURSIVE CrcUpdate(_, _)
CrcUpdate(c, bytes) ==
    IF bytes = << >> THEN c
    ELSE CrcUpdate(CrcByte(c, Head(bytes)), Tail(bytes))

\* crc32.Checksum(bytes, crc32.MakeTable(crc32.Castagnoli)).
Checksum(bytes) == XorBits(CrcUpdate(AllOnes, bytes), AllOnes)

\* The names of the objects of the bucket.
ObjectNames ==
    { "pr-logs/pull/org_repo/41/e2e-v1-13/141/build-log.txt",
      "pr-logs/pull/org_repo/41/e2e-v1-13/141/artifacts/junit__01.xml" }

\* What an object or a cached file holds: no byte, "1", "12".
Contents == { << >>, << 49 >>, << 49, 50 >> }

\* storage.ObjectAttrs: the fields that downloadToCache reads.  The checksum
\* is the one the listing gave, the object may have changed since.
Objects == [Name : ObjectNames, CRC32C : { Checksum(c) : c \in Contents }]

AbsentFile == [present |-> FALSE, bytes |-> << >>]
File(bytes) == [present |-> TRUE, bytes |-> bytes]

\* The states of the cache directory.
Caches == [ObjectNames -> { AbsentFile } \cup { File(c) : c \in Contents }]

\* The call of downloadToCache that fails, if any.
IOFailures ==
    { "none", "ReadFile", "NewReader", "ReadAll", "MkdirAll", "WriteFile" }

\* CacheHit that takes any cached file for a hit.
CacheHitByName(file, obj) == file.present

\* os.Stat finds the file and its checksum is the object's.
CacheHit(file, obj) == file.present /\ Checksum(file.bytes) = obj.CRC32C

\* downloadToCache(object, bucket) on the cache directory files.  fails is
\* the call that returns an error, remote is what the reader of the object
\* delivers, written is how many bytes a failing ioutil.WriteFile has
\* written after truncating the file (-1: it could not open the file).
\* It gives the error returned ("" for nil), the cache directory afterwards,
\* whether bucket.Object(...).NewReader was called, and the bytes read.
downloadToCache(files, obj, fails, remote, written) ==
    LET file == files[obj.Name]
    IN  IF file.present /\ fails = "ReadFile"
        THEN [err |-> "failed to read from cache", cache |-> files,
              fetched |-> FALSE, bytes |-> << >>]
        ELSE IF CacheHit(file, obj)
        THEN [err |-> "", cache |-> files, fetched |-> FALSE, bytes |-> << >>]
        ELSE IF fails \in {"NewReader", "ReadAll"}
        THEN [err |-> "failed to read GCS object", cache |-> files,
              fetched |-> TRUE, bytes |-> << >>]
        ELSE IF fails = "MkdirAll"
        THEN [err |-> "failed to create cache dir", cache |-> files,
              fetched |-> TRUE, bytes |-> remote]
        ELSE IF fails = "WriteFile"
        THEN [err |-> "failed to write to cache",
              cache |-> IF written < 0 THEN files
                        ELSE [files EXCEPT
                                ![obj.Name] = File(SubSeq(remote, 1, written))],
              fetched |-> TRUE, bytes |-> remote]
        ELSE [err |-> "", cache |-> [files EXCEPT ![obj.Name] = File(remote)],
              fetched |-> TRUE, bytes |-> remote]

InitDownload ==
    /\ cache \in Caches
    /\ object = NoObject
    /\ objectNo = 0
    /\ fetched = << >>
    /\ pc = "downloading"
    /\ ReportIdle
    /\ shape = NoShape
    /\ block = NoBlock
    /\ parsed = NoParsed
    /\ rawLines = <<>>
    /\ buildLog = ""
    /\ unread = ""
    /\ lineNo = 0
    /\ isContent = FALSE
    /\ body = <<>>
    /\ blocks = <<>>
    /\ ret = NoReturn

\* for _, object := range objects { err := downloadToCache(&object, bucket)
\* ... }: one iteration.  An error makes the function return.
DownloadObject ==
    /\ pc = "downloading"
    /\ objectNo < MaxObjects
    /\ \E obj \in Objects, fails \in IOFailures :
       \E remote \in IF fails \in {"ReadFile", "NewReader", "ReadAll"}
                     THEN { << >> } ELSE Contents :
       \E written \in IF fails = "WriteFile" THEN -1 .. Len(remote) - 1
                      ELSE { 0 } :
       \E r \in { downloadToCache(cache, obj, fails, remote, written) } :
          /\ object' = obj
          /\ objectNo' = objectNo + 1
          /\ cache' = r.cache
          /\ fetched' = IF r.fetched
                        THEN Append(fetched,
                                    [Name |-> obj.Name, bytes |-> r.bytes])
                        ELSE fetched
          /\ pc' = IF r.err = "" THEN "downloading" ELSE "failed"
    /\ UNCHANGED scanVars
    /\ UNCHANGED blockVars
    /\ UNCHANGED reportVars

\* The loop is over: return nil.
DownloadsDone ==
    /\ pc = "downloading"
    /\ pc' = "downloaded"
    /\ UNCHANGED downloadVars
    /\ UNCHANGED scanVars
    /\ UNCHANGED blockVars
    /\ UNCHANGED reportVars

NextDownload == DownloadObject \/ DownloadsDone

SpecDownload == InitDownload /\ [][NextDownload]_vars

----------------------------------------------------------------------------
(* The later revision of parseGinkgoBlock (src/unnamed/part_003), which    *)
(* takes the text before "Unexpected error:" as a header of the message.   *)
(* It is the same function up to the error location.                       *)

\* The index of the first line that starts with "Unexpected error:", or the
\* number of lines plus one.
ErrHeaderStop(lines) ==
    LET hits == { j \in 1..Len(lines) : HasPrefix(lines[j], UnexpectedError) }
    IN  IF hits = {} THEN Len(lines) + 1 ELSE MinOf(hits)

\* ErrHeader that keeps the blank lines.
ErrHeaderKeepsBlank(lines) == SubSeq(lines, 1, ErrHeaderStop(lines) - 1)

\* The ErrHeader loop: the lines before the marker that are not empty.
ErrHeader(lines) ==
    SelectSeq(SubSeq(lines, 1, ErrHeaderStop(lines) - 1), LAMBDA l : l # "")

\* The error section of the revision: as ErrSection up to the error
\* location, then the header and the unwrapped text.
ErrSectionWithHeader(all, rest0, first0, i, name, status, duration) ==
    LET indent == Repeat(" ", i - 2)
        skip == rest0[1] = ""
        rest1 == IF skip THEN Tail(rest0) ELSE rest0
        first == IF skip THEN first0 + 1 ELSE first0
        rest2 == [j \in 1..Len(rest1) |-> TrimPrefix(rest1[j], indent)]
        all2 == WriteBack(all, first, rest2)
        n == Len(rest2)
    IN  IF n < 2 THEN Panicked(all2)
        ELSE
          LET errLoc == TrimPrefix(rest2[n], indent)
              rest3 == SubSeq(rest2, 1, n - 2)
              stop == ErrHeaderStop(rest3)
              errStr == ErrHeader(rest3)
          IN  IF stop = Len(rest3) + 1
              THEN [kind |-> "ok", name |-> name, status |-> status,
                    duration |-> duration, errStr |-> Join(errStr, "\n"),
                    errLoc |-> errLoc, after |-> all2]
              ELSE
                LET u == UnwrapDump(SubSeq(rest3, stop, Len(rest3)))
                    rest4 == [j \in 1..Len(u.lines) |->
                                TrimPrefix(u.lines[j], "    ")]
                IN  IF u.panic THEN Panicked(all2)
                    ELSE [kind |-> "ok", name |-> name, status |-> status,
                          duration |-> duration,
                          errStr |-> Join(errStr \o rest4, "\n"),
                          errLoc |-> errLoc,
                          after |-> WriteBack(all2,
                                              first + stop + u.from - 2, rest4)]

\* parseGinkgoBlock(block) of the revision.
parseGinkgoBlockWithHeader(b) ==
    LET all == b.lines
        n == Len(all)
    IN  IF TooShort(all) THEN Failed(all)
        ELSE
          LET match == reGingkoBlockHeader(all[1])
              status == HeaderStatus(match.phrase)
          IN  IF ~match.ok THEN Failed(all)
              ELSE IF status = "" THEN Failed(all)
              ELSE IF ~HasFooter(all) THEN Failed(all)
              ELSE
                LET lines == SubSeq(all, 2, n - 1)
                    i == NameWalk(lines, 0)
                    name == Join(NameParts(lines, i), " ")
                    duration == Atoi(match.digits)
                IN  IF i = 0 THEN Failed(all)
                    ELSE IF i >= Len(lines)
                    THEN [kind |-> "ok", name |-> name, status |-> status,
                          duration |-> duration, errStr |-> "", errLoc |-> "",
                          after |-> all]
                    ELSE ErrSectionWithHeader(all,
                                              SubSeq(lines, i + 1, Len(lines)),
                                              i + 1, i, name, status, duration)

\* The text printed before the error body: nothing, one line, or two lines
\* with a blank line between them.
ErrHeaders ==
    { << >>, << "failed to create vault issuer" >>,
      << "waiting for the issuer", "", "issuer not ready" >> }

\* A block shape with the text before the error body.
HeaderBlockShapes ==
    [hdr : {PlainHeader}, levels : NameShapes, err : ErrShapes \ {NoErr},
     footer : {"dash"}, errHeader : ErrHeaders]

\* The lines of a block with its error header, indented like the error body.
BuildBlockWithHeader(sh) ==
    LET n == Len(sh.levels)
        ind == IF n = 0 THEN 0 ELSE 2 * (n - 1)
        e == ErrLines(sh.err, n)
        lead == IF sh.err.lead THEN << "" >> ELSE << >>
    IN  << HeaderLine(sh.hdr) >> \o NameLines(sh.levels) \o lead
            \o [j \in 1..Len(sh.errHeader) |-> IndentLine(sh.errHeader[j], ind)]
            \o SubSeq(e, Len(lead) + 1, Len(e)) \o FooterLines(sh.footer)

InitHeaderBlock ==
    /\ shape \in HeaderBlockShapes
    /\ block = ginkgoBlock(42, BuildBlockWithHeader(shape))
    /\ parsed = NoParsed
    /\ pc = "call"
    /\ rawLines = <<>>
    /\ buildLog = ""
    /\ unread = ""
    /\ lineNo = 0
    /\ isContent = FALSE
    /\ body = <<>>
    /\ blocks = <<>>
    /\ ret = NoReturn
    /\ ReportIdle
    /\ DownloadIdle

\* parsed, err := parseGinkgoBlock(block), in the revision.
ParseBlockWithHeader ==
    /\ pc = "call"
    /\ parsed' = parseGinkgoBlockWithHeader(block)
    /\ block' = [block EXCEPT !.lines = parsed'.after]
    /\ pc' = "returned"
    /\ UNCHANGED scanVars
    /\ UNCHANGED shape
    /\ UNCHANGED reportVars
    /\ UNCHANGED downloadVars

NextHeaderBlock == ParseBlockWithHeader

SpecHeaderBlock == InitHeaderBlock /\ [][NextHeaderBlock]_vars

----------------------------------------------------------------------------
(* parseGinkgoBlock on blocks whose name hierarchy grows by 1, 2 or 4      *)
(* spaces per level.                                                       *)

\* The spaces by which a level is indented more than the level above it.
IndentSteps == {1, 2, 4}

IndentShapes ==
    [hdr : {PlainHeader}, levels : NameShapes, err : {NoErr, FullErr},
     footer : {"dash"}, step : IndentSteps]

\* The lines of a block whose level k is indented by k times step spaces, the
\* error section being indented like the innermost level.
BuildIndentBlock(sh) ==
    LET n == Len(sh.levels)
        ind == IF n = 0 THEN 0 ELSE sh.step * (n - 1)
        ls == IF sh.err.kind = "none" THEN << >>
              ELSE << "" >> \o BodyLines(sh.err) \o TailLines(sh.err.tail)
    IN  << HeaderLine(sh.hdr) >>
            \o [j \in 1..(2 * n) |->
                  IF j % 2 = 1
                  THEN Repeat(" ", sh.step * ((j - 1) \div 2))
                           \o LevelText(sh.levels[(j + 1) \div 2])
                  ELSE Repeat(" ", sh.step * ((j - 2) \div 2))
                           \o "pkg/f.go:" \o Itoa(j \div 2)]
            \o [j \in 1..Len(ls) |-> IndentLine(ls[j], ind)]
            \o FooterLines(sh.footer)

InitIndentBlock ==
    /\ shape \in IndentShapes
    /\ block = ginkgoBlock(42, BuildIndentBlock(shape))
    /\ parsed = NoParsed
    /\ pc = "call"
    /\ rawLines = <<>>
    /\ buildLog = ""
    /\ unread = ""
    /\ lineNo = 0
    /\ isContent = FALSE
    /\ body = <<>>
    /\ blocks = <<>>
    /\ ret = NoReturn
    /\ ReportIdle
    /\ DownloadIdle

NextIndentBlock == ParseBlock

SpecIndentBlock == InitIndentBlock /\ [][NextIndentBlock]_vars

----------------------------------------------------------------------------
(* What the segmenter is expected to do, stated on the lines of the input. *)

\* The input file.
Input == Join(rawLines, "\n")

\* The lines of the input file, ANSI sequences removed: a file that ends with
\* a newline has no line after it.
InputLines ==
    LET n == IF Len(rawLines) > 0 /\ rawLines[Len(rawLines)] = ""
             THEN Len(rawLines) - 1 ELSE Len(rawLines)
    IN  [i \in 1..n |-> rmAnsiColors(rawLines[i])]

\* The first line at or after `from` that starts with the opening marker.
FirstOpen(L, from) ==
    MinOf({ i \in from..Len(L) : HasPrefix(L[i], FailurePrefix) })

\* The first line at or after `from` that is the 30-dash line.
FirstDash(L, from) == MinOf({ i \in from..Len(L) : L[i] = DashLine })

\* The runs of L from an opening line to the next dash line, in order.
RECURSIVE Runs(_, _)
Runs(L, from) ==
    LET o == FirstOpen(L, from)
        c == IF o = 0 THEN 0 ELSE FirstDash(L, o)
    IN  IF o = 0 \/ c = 0 THEN <<>>
        ELSE <<[first |-> o, last |-> c]>> \o Runs(L, c + 1)

\* The number of the opening line of the block that is still open at the end
\* of L, or 0 when no block is.
RECURSIVE OpenAtEnd(_, _)
OpenAtEnd(L, from) ==
    LET o == FirstOpen(L, from)
        c == IF o = 0 THEN 0 ELSE FirstDash(L, o)
    IN  IF o = 0 THEN 0 ELSE IF c = 0 THEN o ELSE OpenAtEnd(L, c + 1)

\* Every ESC of s starts a match of rmAnsiColors.
EveryEscBegins(s) ==
    \A i \in 1..Len(s) : CharAt(s, i) = ESC => AnsiMatchLen(s, i) > 0

\* s with every ESC deleted together with what follows it up to and including
\* the next final byte.  When every ESC starts a sequence, this is s with its
\* sequences deleted.
RECURSIVE DeleteSeqsFrom(_, _)
DeleteSeqsFrom(s, i) ==
    LET e == IndexFrom(s, ESC, i)
        f == IF e = 0 THEN 0
             ELSE MinOf({ k \in (e + 1)..Len(s) : IsAnsiFinal(CharAt(s, k)) })
    IN  IF e = 0 THEN SubSeq(s, i, Len(s))
        ELSE IF f = 0 THEN SubSeq(s, i, e - 1)
        ELSE SubSeq(s, i, e - 1) \o DeleteSeqsFrom(s, f + 1)

DeleteSeqs(s) == DeleteSeqsFrom(s, 1)

\* The lines of every block that was emitted.
EmittedLines == UNION { { b.lines[j] : j \in 1..Len(b.lines) } :
                        b \in { ret.blocks[k] : k \in 1..Len(ret.blocks) } }

----------------------------------------------------------------------------
(* The claims about parseBuildLog.                                         *)

C2_StartLine ==
    (pc = "done" /\ ~ret.err) =>
        LET R == Runs(InputLines, 1)
        IN  \A k \in 1..Len(ret.blocks) :
              k <= Len(R) /\ ret.blocks[k].line = R[k].first

\* C3: when the input ends while a block is open, parseBuildLog returns an
\* error and no block, whatever complete blocks came before.
C3_Unterminated ==
    (pc = "done" /\ OpenAtEnd(InputLines, 1) # 0) =>
        (ret.err /\ ret.blocks = <<>>)

\* C3 witness: the error is returned although a complete block was found
\* before the unterminated one.
C3_Witness ==
    /\ pc = "done"
    /\ ret.err
    /\ Len(blocks) >= 1
    /\ OpenAtEnd(InputLines, 1) > 2

\* C4: the line number in the error of an unterminated block is the number
\* of that block's opening line.
C4_ErrorLine ==
    (pc = "done" /\ ret.err) => ret.errLine = OpenAtEnd(InputLines, 1)

\* C5 as stated: for any input, the result is that of the input with its
\* sequences deleted beforehand, and no emitted line holds a sequence.
C5_AnyInput ==
    pc = "done" =>
        /\ ret = parseBuildLog(rmAnsiColors(Input))
        /\ \A l \in EmittedLines : ~HasAnsi(l)

\* C5 amended: for any input in which every ESC starts a sequence (so that
\* deleting the sequences cannot join the pieces of a new one), the result is
\* that of the input with its sequences deleted beforehand, and no emitted
\* line holds a sequence.
C5_ColourInsensitive ==
    (pc = "done" /\ EveryEscBegins(Input)) =>
        /\ ret = parseBuildLog(DeleteSeqs(Input))
        /\ \A l \in EmittedLines : ~HasAnsi(l)

\* C5 witness: a header and a dash line, both wrapped in colour codes, opened
\* and closed a block.
C5_Witness ==
    /\ pc = "done"
    /\ EveryEscBegins(Input)
    /\ rawLines = <<ColourOpenLine, NoiseLine, ColourDashLine>>
    /\ ~ret.err
    /\ Len(ret.blocks) = 1
    /\ ret.blocks[1].lines = <<OpenLine, NoiseLine, DashLine>>

----------------------------------------------------------------------------
(* What the block parser is expected to do, stated on the block it was     *)
(* given.                                                                  *)

\* The lines of the block as it was given to parseGinkgoBlock.
Orig == BuildBlock(shape)

\* The lines between the header and the footer.
Inner == SubSeq(Orig, 2, Len(Orig) - 1)

\* The header is a failure header with a duration "[D.F seconds]".
HeaderOk ==
    /\ shape.hdr.frac # ""
    /\ shape.hdr.phrase = "Failure" \/ HasPrefix(shape.hdr.phrase, SetupPhrase)

\* The last line is the 30-dash line.
FooterOk == Len(Orig) >= 1 /\ Orig[Len(Orig)] = DashLine

\* Level k (from 0) is present in L: lines 2k and 2k+1 (from 0) exist and are
\* both indented by at least 2k spaces.
LevelAt(L, k) ==
    /\ 2 * k + 2 <= Len(L)
    /\ HasPrefix(L[2 * k + 1], Repeat(" ", 2 * k))
    /\ HasPrefix(L[2 * k + 2], Repeat(" ", 2 * k))

\* The number of successive levels of L.
LevelCount(L) ==
    LET ms == { m \in 0..(Len(L) \div 2) : \A k \in 0..(m - 1) : LevelAt(L, k) }
    IN  CHOOSE m \in ms : \A r \in ms : r <= m

\* The description of level k: its line without the level's indentation and
\* without a trailing " [It]".
Description(L, k) ==
    TrimSuffix(TrimPrefix(L[2 * k + 1], Repeat(" ", 2 * k)), ItSuffix)

ExpectedName(L) ==
    Join([k \in 1..LevelCount(L) |-> Description(L, k - 1)], " ")

\* The block has the documented layout with an "Unexpected error:" body: a
\* name hierarchy, the marker, a value dump that ends with a closing-brace
\* line, the leaf text, "occurred", a blank line and the location.
UnexpectedLayout ==
    /\ Len(shape.levels) >= 1
    /\ shape.err.kind = "unexpected"
    /\ shape.err.dump \in {"short", "nested"}
    /\ shape.err.occurred
    /\ shape.err.tail = "blankloc"

----------------------------------------------------------------------------
(* The claims about parseGinkgoBlock.                                      *)

\* C6: a record that parseGinkgoBlock returns for a header "[D.F seconds]" has
\* duration D, the integer before the decimal point; its status is "failed"
\* for the phrase "Failure" and "error" exactly when the phrase starts with
\* "Failure in Spec Setup".
C6_HeaderRoundTrip ==
    (pc = "returned" /\ parsed.kind = "ok") =>
        /\ parsed.duration = shape.hdr.secs
        /\ parsed.status \in {"failed", "error"}
        /\ shape.hdr.phrase = "Failure" => parsed.status = "failed"
        /\ parsed.status = "error" <=> HasPrefix(shape.hdr.phrase, SetupPhrase)

\* C6 witness: a setup failure of 61.937 seconds was parsed as an error of 61
\* seconds.
C6_Witness ==
    /\ pc = "returned"
    /\ parsed.kind = "ok"
    /\ HasPrefix(shape.hdr.phrase, SetupPhrase)
    /\ shape.hdr.frac = "937"
    /\ parsed.status = "error"
    /\ parsed.duration = 61

\* C7: parseGinkgoBlock returns an error whenever the first line is no failure
\* header, or the last line is not the 30-dash line, or fewer than two lines
\* (no description/location pair) lie between them; it returns a record only
\* when none of the three is the case.
C7_Rejects ==
    pc = "returned" =>
        LET bad == ~HeaderOk \/ ~FooterOk \/ Len(Inner) < 2
        IN  /\ bad => parsed.kind = "error"
            /\ parsed.kind = "ok" => ~bad

\* C7 witness: header and footer are right and the call failed because no
\* name line was found.
C7_Witness ==
    /\ pc = "returned"
    /\ HeaderOk
    /\ FooterOk
    /\ Len(Inner) < 2
    /\ parsed.kind = "error"

\* C8: every record returned has a non-empty name that does not end with
\* " [It]".
C8_NameNonEmpty ==
    (pc = "returned" /\ parsed.kind = "ok") =>
        (parsed.name # "" /\ ~HasSuffix(parsed.name, ItSuffix))

\* C9: the name of a returned record is the descriptions of the successive
\* levels (lines 0, 2, 4, ... after the header, level k indented by 2k
\* spaces), each without its level's indentation and without a trailing
\* " [It]", joined by single spaces from the outermost to the innermost.
C9_NameJoin ==
    (pc = "returned" /\ parsed.kind = "ok") => parsed.name = ExpectedName(Inner)

\* C9 witness: two levels, the outer one with bracket annotations, the inner
\* one with the " [It]" marker.
C9_Witness ==
    /\ pc = "returned"
    /\ parsed.kind = "ok"
    /\ shape.levels = <<"annot", "it">>
    /\ parsed.name = "[Conf] with ACME [BeforeEach] issues a cert"

----------------------------------------------------------------------------
(* The claims about results.                                               *)

\* The result appended last.
LastResult ==
    IF fileOrURL \in CachedLogs THEN ginkgoResults[Len(ginkgoResults)]
    ELSE results[Len(results)]

\* The source, job, PR and build expected for the block at line 42 of each
\* origin.
ExpectedOrigin ==
    CASE fileOrURL = "logs/build-log.txt" ->
            [source |-> "logs/build-log.txt:42",
             job |-> "", pr |-> 0, build |-> 0]
      [] fileOrURL = "https://prow.example/build-log.txt" ->
            [source |-> "https://prow.example/build-log.txt#line=42",
             job |-> "", pr |-> 0, build |-> 0]
      [] fileOrURL = "http://prow.example/b.txt" ->
            [source |-> "http://prow.example/b.txt#line=42",
             job |-> "", pr |-> 0, build |-> 0]
      [] HasSuffix(fileOrURL, "/46/e2e-v1-13/143/build-log.txt") ->
            [source |-> "https://storage.googleapis.com/jetstack-logs/"
                \o "pr-logs/pull/org_repo/46/e2e-v1-13/143/build-log.txt#line=42",
             job |-> "e2e-v1-13", pr |-> 46, build |-> 143]
      [] HasSuffix(fileOrURL, "/4664/e2e/7/artifacts/build-log.txt") ->
            [source |-> "https://storage.googleapis.com/jetstack-logs/"
                \o "pr-logs/pull/org_repo/4664/e2e/7/artifacts/build-log.txt#line=42",
             job |-> "e2e", pr |-> 4664, build |-> 7]

\* C11: the result appended for a parsed block has the block's name,
\* duration, error message and error location, status "failed" for a plain
\* failure and "error" for a setup failure, the source "<url>#line=<line>"
\* for a URL or a cached artifact and "<path>:<line>" for a local file, and
\* job, PR and build only for a cached artifact.
C11_Normalised ==
    pc = "appended" =>
        LET r == LastResult
            x == ExpectedOrigin
        IN  /\ r.Name = parsed.name
            /\ r.Duration = parsed.duration
            /\ r.Err = parsed.errStr
            /\ r.ErrLoc = parsed.errLoc
            /\ parsed.kind = "ok" =>
                  r.Status = (IF shape.hdr.phrase = "Failure" THEN "failed"
                              ELSE "error")
            /\ r.Source = x.source
            /\ r.Job = x.job
            /\ r.PR = x.pr
            /\ r.Build = x.build

\* C11 witness: a setup failure of a cached build log became a result with
\* status "error", the line anchor, and the PR, job and build of the object.
C11_Witness ==
    /\ pc = "appended"
    /\ fileOrURL \in CachedLogs
    /\ parsed.kind = "ok"
    /\ parsed.errStr # ""
    /\ LastResult.Status = "error"
    /\ LastResult.PR = 4664
    /\ LastResult.Job = "e2e"
    /\ LastResult.Build = 7
    /\ LastResult.Err = parsed.errStr

\* The results that came from a JUnit report: their source is the url of an
\* XML file.
JunitDerived ==
    { ginkgoResults[k] : k \in { j \in 1..Len(ginkgoResults) :
                                   HasSuffix(ginkgoResults[j].Source, ".xml") } }

\* The whole seconds of the passed tests of the report: 0.999 s, 61.5 s, 2 s.
PassedSeconds(name) ==
    CASE name = "fast spec" -> 0
      [] name = "slow spec" -> 61
      [] name = "Certs issues a cert" -> 2
      [] OTHER -> -1

\* C12: every result derived from a JUnit report has status "passed", no
\* error message and no error location, a source without line anchor, and
\* the floor of the test's duration in seconds; the skipped, failed and
\* error test cases produce no result.
C12_JunitPassedOnly ==
    /\ \A r \in JunitDerived :
          /\ r.Status = "passed"
          /\ r.Err = ""
          /\ r.ErrLoc = ""
          /\ IndexFrom(r.Source, "#", 1) = 0
          /\ r.Duration = PassedSeconds(r.Name)
    /\ \A k \in 1..Len(ginkgoResults) :
          ginkgoResults[k].Name \notin
              {"skipped spec", "failed spec", "broken spec"}

\* C12 witness: the run returned the results of a JUnit report, among them
\* the sub-second test with duration 0 and the 61.5 s test with duration 61.
C12_Witness ==
    /\ pc = "parsed"
    /\ \E r \in JunitDerived : r.Name = "fast spec" /\ r.Duration = 0
    /\ \E r \in JunitDerived : r.Name = "slow spec" /\ r.Duration = 61
    /\ Cardinality(JunitDerived) >= 3

----------------------------------------------------------------------------
(* The claims about the aggregations.                                      *)

\* The greatest element of a set of natural numbers, 0 for the empty set.
MaxOf(S) == IF S = {} THEN 0 ELSE CHOOSE m \in S : \A x \in S : x <= m

\* The positions of the input records with the given name and status.
Records(name, st) ==
    { i \in 1..Len(results) :
        results[i].Name = name /\ results[i].Status = st }

\* The durations of the input records with the given name and status.
Durations(name, st) == { results[i].Duration : i \in Records(name, st) }

\* The names of the entries of stats.
StatNames == { stats[k].Name : k \in 1..Len(stats) }

\* The names of the input records.
InputNames == { results[i].Name : i \in 1..Len(results) }

C14_OnePerFailedName ==
    pc = "max-duration" =>
        /\ StatNames = { name \in InputNames : Records(name, "failed") # {} }
        /\ \A j, k \in 1..Len(stats) : stats[j].Name = stats[k].Name => j = k

C16_CountsPerName ==
    pc = "most-failures" =>
        /\ \A k \in 1..Len(stats) :
              LET name == stats[k].Name
              IN  /\ stats[k].CountPassed = Cardinality(Records(name, "passed"))
                  /\ stats[k].CountFailed = Cardinality(Records(name, "failed"))
                  /\ stats[k].CountFailed = Len(stats[k].Errors)
                  /\ stats[k].Errors =
                        SelectSeq(results,
                                  LAMBDA r : r.Name = name /\ r.Status = "failed")
        /\ \A name \in InputNames :
              Records(name, "failed") = {} => name \notin StatNames

\* C16 witness: an entry with two failures in input order and one pass, whose
\* name also has a setup error.
C16_Witness ==
    /\ pc = "most-failures"
    /\ Records("spec A", "error") # {}
    /\ \E k \in 1..Len(stats) :
          /\ stats[k].Name = "spec A"
          /\ stats[k].CountPassed = 1
          /\ stats[k].CountFailed = 2
          /\ stats[k].Errors[1].Err = "timed out"
          /\ stats[k].Errors[2].Err = "no route"

----------------------------------------------------------------------------
(* The claims about a report run over the cache.                           *)

\* The artifact is a build log that does not parse: its last block is not
\* terminated, or parseGinkgoBlock rejects one of its blocks.
LogParseFailure(a) ==
    /\ isBuildLogFile(a.path)
    /\ ~parseObjectName(ObjectNameOf(a.path)).err
    /\ LET b == parseBuildLog(a.content)
       IN  \/ b.err
           \/ \E k \in 1..Len(b.blocks) :
                 parseGinkgoBlock(b.blocks[k]).kind = "error"

\* The artifact parses on its own and yields results.
ParsesWithResults(a) ==
    LET step == CacheStep(<<>>, a)
    IN  step.kind = "ok" /\ step.results # <<>>

\* C18: a build log that does not parse does not abort a report run: the run
\* never ends on that file while another file of the cache parses and yields
\* results.
C18_BestEffort ==
    ~ /\ pc = "exited"
      /\ LogParseFailure(artifacts[artifactNo])
      /\ \E k \in 1..Len(artifacts) :
            k # artifactNo /\ ParsesWithResults(artifacts[k])


----------------------------------------------------------------------------
(* C19.  Every call of downloadToCache is a step that adds one to          *)
(* objectNo; object' is the object of the call, cache the cache directory *)
(* before it and cache' the directory after it; the call has returned an   *)
(* error when pc' is "failed".                                             *)

\* The call of this step was for an object whose cached file exists and has
\* the object's checksum.
CallHit ==
    LET file == cache[object'.Name]
    IN  file.present /\ Checksum(file.bytes) = object'.CRC32C

\* The call of this step has fetched the object once.
CallFetched ==
    /\ Len(fetched') = Len(fetched) + 1
    /\ SubSeq(fetched', 1, Len(fetched)) = fetched
    /\ fetched'[Len(fetched')].Name = object'.Name

\* The call of this step has replaced the cached file of the object by the
\* bytes it fetched, and left the other files as they were.
CallReplaced ==
    cache' = [cache EXCEPT
                ![object'.Name] = File(fetched'[Len(fetched')].bytes)]

\* C19: downloadToCache follows the checksum cache protocol.  A call for an
\* object whose cached file has the object's CRC32C checksum fetches nothing
\* from the bucket and leaves the cache directory as it was.  A
\* call that returns without error for an object that has no cached file,
\* or one with another checksum, has fetched the object and replaced the
\* cached file by the fetched bytes.  A call that returns an error has
\* fetched the object at most once and has left the cache directory as it
\* was, but for a failed write, which can leave the first bytes of the
\* fetched object in the file.
C19_ChecksumCache ==
    [][ (objectNo' = objectNo + 1) =>
          /\ CallHit => (fetched' = fetched /\ cache' = cache)
          /\ (~CallHit /\ pc' = "downloading") => (CallFetched /\ CallReplaced)
          /\ (pc' = "failed") =>
                \/ fetched' = fetched /\ cache' = cache
                \/ CallFetched /\ cache' = cache
                \/ /\ CallFetched
                   /\ \E n \in 0 .. Len(fetched'[Len(fetched')].bytes) - 1 :
                         cache' = [cache EXCEPT ![object'.Name] =
                             File(SubSeq(fetched'[Len(fetched')].bytes, 1, n))]
      ]_vars

\* C19 witness: two calls for the same object name have returned without
\* error; one fetched the object and wrote "12" to the cache, the other one
\* found the checksum of the cached file to be the object's and fetched
\* nothing.
C19_Witness ==
    /\ pc = "downloading"
    /\ objectNo = 2
    /\ Len(fetched) = 1
    /\ fetched[1] = [Name |-> object.Name, bytes |-> << 49, 50 >>]
    /\ cache[object.Name] = File(<< 49, 50 >>)
    /\ object.CRC32C = Checksum(<< 49, 50 >>)


----------------------------------------------------------------------------
(* The claim about the error location.                                     *)

\* The index at which the name walk of the block stopped.
WalkStop == NameWalk(Inner, 0)

\* C20: the error location that parseGinkgoBlock returns is the last line of
\* the error section, the line just before the closing dash line, with
\* exactly i - 2 leading spaces removed, i being the index at which the name
\* walk stopped: a line that is indented deeper keeps the rest of its
\* indentation.
C20_ErrLocVerbatim ==
    (pc = "returned" /\ parsed.kind = "ok" /\ WalkStop < Len(Inner)) =>
        parsed.errLoc =
            TrimPrefix(Inner[Len(Inner)], Repeat(" ", WalkStop - 2))


----------------------------------------------------------------------------
(* The claims about the error body.                                        *)

\* The error section of the block: the lines after the name hierarchy,
\* without a leading blank line and without the indentation of the section.
Section ==
    LET rest == SubSeq(Inner, WalkStop + 1, Len(Inner))
        kept == IF rest # << >> /\ rest[1] = "" THEN Tail(rest) ELSE rest
    IN  [j \in 1..Len(kept) |->
            TrimPrefix(kept[j], Repeat(" ", WalkStop - 2))]

\* The error message made of the lines ls: the lines joined by newlines, and
\* for lines that start with "Unexpected error:" the unwrapped text without
\* its 4-space indent.
MessageOf(ls) ==
    IF ls = << >> THEN ""
    ELSE IF ls[1] # UnexpectedError THEN Join(ls, "\n")
    ELSE LET u == UnwrapDump(ls).lines
         IN  Join([j \in 1..Len(u) |-> TrimPrefix(u[j], "    ")], "\n")

\* A record was returned for a block with an error section.
HasSection ==
    pc = "returned" /\ parsed.kind = "ok" /\ WalkStop < Len(Inner)

\* C21 as stated: once the location has been taken from the last line of the
\* error section, the two lines before the location line, the last content
\* line and the blank line, are dropped from the error body, whether or not
\* the body starts with "Unexpected error:".
C21_DropsTwoBeforeLocation ==
    HasSection =>
        parsed.errStr = MessageOf(SubSeq(Section, 1, Len(Section) - 3))

\* C21 amended: the error body is the error section without its last two
\* lines, the location line and the line before it, whether or not the body
\* starts with "Unexpected error:"; the last content line before the blank
\* line is kept.
C21_DropsLocationAndBlank ==
    HasSection =>
        parsed.errStr = MessageOf(SubSeq(Section, 1, Len(Section) - 2))

\* C21 witness: a message with a value dump, a blank line and the location;
\* the closing-brace line, the last content line, ends the message.
C21_Witness ==
    /\ HasSection
    /\ shape.err.kind = "msg"
    /\ shape.err.dump = "nested"
    /\ shape.err.tail = "blankloc"
    /\ Section[Len(Section) - 2] = "    }"
    /\ parsed.errStr = Join(SubSeq(Section, 1, Len(Section) - 2), "\n")


\* The lines of the error header that are not blank.
HeaderText == SelectSeq(shape.errHeader, LAMBDA l : l # "")

\* A record was returned for a block with a name hierarchy whose error
\* section ends with a blank line and the location.
HeaderBlockParsed ==
    /\ pc = "returned"
    /\ parsed.kind = "ok"
    /\ "errHeader" \in DOMAIN shape
    /\ Len(shape.levels) >= 1
    /\ shape.err.tail \in {"blankloc", "deeploc"}

----------------------------------------------------------------------------
(* The claim about the indentation of the name hierarchy.                  *)

\* C23: a block whose name hierarchy does not grow by exactly two spaces per
\* nesting level makes parseGinkgoBlock fail with an error; no record is
\* returned for it.
C23_RejectsOtherIndent ==
    (/\ pc = "returned"
     /\ "step" \in DOMAIN shape
     /\ shape.step # 2
     /\ Len(shape.levels) >= 2) => parsed.kind = "error"


----------------------------------------------------------------------------
(* The claim about the block after the call.                               *)

\* What the call returned, without the state of the caller's slice.
Returned(p) ==
    [kind |-> p.kind, name |-> p.name, status |-> p.status,
     duration |-> p.duration, errStr |-> p.errStr, errLoc |-> p.errLoc]

\* C24: parseGinkgoBlock does not modify the block it is given: after a call
\* that returned a record or an error, every element of the caller's
\* block.lines is what it was before the call, and parsing the same block
\* value a second time returns what the first call returned.
C24_BlockUnchanged ==
    (pc = "returned" /\ parsed.kind # "panic") =>
        /\ block.lines = Orig
        /\ Returned(parseGinkgoBlock(block)) = Returned(parsed)


\* The position at which a name first occurs in the input.
FirstOccurrence(name) ==
    CHOOSE i \in 1..Len(results) :
        /\ results[i].Name = name
        /\ \A j \in 1..(i - 1) : results[j].Name # name

\* C25: in the output of computeStatsMaxDuration, entries with an equal
\* MaxDurationFailed - MaxDurationPassed difference appear in the order in
\* which their names first occur in the input.
C25_TiesInFirstSeenOrder ==
    pc = "max-duration" =>
        \A j, k \in 1..Len(stats) :
            (/\ j < k
             /\ stats[j].MaxDurationFailed - stats[j].MaxDurationPassed
                  = stats[k].MaxDurationFailed - stats[k].MaxDurationPassed)
                => FirstOccurrence(stats[j].Name) < FirstOccurrence(stats[k].Name)


\* C26: deriving the PR number, the job name and the build number from the
\* path of a cached artifact never makes parseGinkgoResultsFromCache return
\* an error: a run never ends on an artifact that is a build log or a JUnit
\* report and whose object name parseObjectName rejects.
C26_ProvenanceNeverFails ==
    ~ /\ pc = "exited"
      /\ isToBeDownloaded(artifacts[artifactNo].path)
      /\ parseObjectName(ObjectNameOf(artifacts[artifactNo].path)).err


\* C27: parseGinkgoBlock is total: every call returns a record or an error,
\* and none aborts with an index or a slice bound out of range.
C27_NeverPanics ==
    pc = "returned" => parsed.kind \in {"ok", "error"}


----------------------------------------------------------------------------
(* The text rendering of "tests parse-logs".                               *)

\* The switch on res.Status in the text output of main: a row for a known
\* status, a panic ("developer mistake: unknown status") for any other.
TextRow(res) ==
    CASE res.Status = "passed" -> "row"
      [] res.Status = "failed" -> "row"
      [] res.Status = "error" -> "row"
      [] OTHER -> "panic"

\* C28: in "tests parse-logs" every emitted result has a non-empty name and
\* the status failed or error; a block for which parseGinkgoBlock returns an
\* error contributes no result, and the text rendering of the results never
\* reaches its panic.
C28_EmittedResultsValid ==
    pc = "appended" =>
        /\ parsed.kind = "ok"
        /\ \A k \in 1..Len(results) :
              /\ results[k].Name # ""
              /\ results[k].Status \in {"failed", "error"}
              /\ TextRow(results[k]) = "row"


\* An emitted block: its first line is an opening line, its last line is the
\* dash line and no line before it is, it has two lines or more, and it
\* passes the length check and the footer check of parseGinkgoBlock.
WellFormedBlock(lines) ==
    /\ Len(lines) >= 2
    /\ HasPrefix(lines[1], FailurePrefix)
    /\ \A j \in 1..Len(lines) : lines[j] = DashLine <=> j = Len(lines)
    /\ ~TooShort(lines)
    /\ HasFooter(lines)

\* The scanner is about to read a line that starts with the opening marker
\* while a block is open.
MarkerInOpenBlock ==
    /\ pc = "scan"
    /\ isContent
    /\ HasToken(unread)
    /\ HasPrefix(NextToken(unread), FailurePrefix)

----------------------------------------------------------------------------
(* parseBuildLog on logs with a line at the token limit of the scanner.    *)

\* A line of n bytes.
RECURSIVE Fill(_)
Fill(n) ==
    IF n = 0 THEN ""
    ELSE LET half == Fill(n \div 2)
         IN  IF n % 2 = 1 THEN half \o half \o "x" ELSE half \o half

\* The shortest line that does not fit the buffer of the scanner, and the
\* longest one that does.
LongLine == Fill(MaxScanTokenSize)
FittingLine == Fill(MaxScanTokenSize - 1)

\* What comes before and after the line at the limit.
Surroundings ==
    { <<>>, << OpenLine >>, << DashLine >>, << OpenLine, DashLine >>,
      << OpenLine, "Certs" >> }

LimitLines == { LongLine, FittingLine, OpenLine \o LongLine }

LongLogs ==
    { before \o << l >> \o after :
        before \in Surroundings, l \in LimitLines, after \in Surroundings }

InitLongLines ==
    /\ rawLines \in LongLogs
    /\ buildLog = Join(rawLines, "\n")
    /\ unread = ""
    /\ lineNo = 0
    /\ isContent = FALSE
    /\ body = <<>>
    /\ blocks = <<>>
    /\ ret = NoReturn
    /\ pc = "strip"
    /\ shape = NoShape
    /\ block = NoBlock
    /\ parsed = NoParsed
    /\ ReportIdle
    /\ DownloadIdle

SpecLongLines == InitLongLines /\ [][Next]_vars

\* C30: parseBuildLog scans the input to its end whatever the length of its
\* lines: every terminated block of the input is returned and an
\* unterminated one is reported, also when a line is as long as the token
\* limit of the scanner or longer.
C30_ScansToEnd ==
    pc = "done" =>
        IF OpenAtEnd(InputLines, 1) = 0
        THEN ~ret.err /\ Len(ret.blocks) = Len(Runs(InputLines, 1))
        ELSE ret.err

====
